---------------------------- MODULE Spec2Model ----------------------------
(***************************************************************************)
(* Model of alex86emu: the StackPointer arithmetic (mem/mod.rs), the CPU   *)
(* core (cpu/mod.rs), the syscall layer and execution loop and the binary  *)
(* loader / export resolver (program/mod.rs).                              *)
(*                                                                         *)
(* A u64 is a tuple of four 16-bit limbs, least significant first, so that *)
(* truncating casts (as u16, as u32), byte conversions and wrapping        *)
(* arithmetic are computed at their real width.                            *)
(***************************************************************************)
EXTENDS Integers, Sequences, FiniteSets, TLC

VARIABLES
    stack,          \* Cpu.stack: [0..STACK_SIZE-1 -> 0..255]
    registers,      \* Cpu.registers: slot name -> value
    hist,           \* the last two CPU-core calls made, newest first (history)
    decoder,        \* the iced_x86 Decoder cursor: [ip, position]
    image,          \* the byte buffer given to the decoder, as decoded cells
    relative_instruction_pointer,  \* base recorded at loop start
    exit_code,      \* Option<u64>: <<>> is None, <<v>> is Some(v)
    stdout,         \* accumulated bytes of the stdout String
    stderr,         \* accumulated bytes of the stderr String
    result,         \* return value of execute_from_x86_decoder, or Running
    trace,          \* loop history: what the last iteration decoded and did
    binary,         \* loader input: the parsed view of the byte buffer
    loaded,         \* loader history: results of the two resolvers
    state,          \* complete_challenge: the State enum, with its BinaryInfo
    recv_buf,       \* complete_challenge: buf, the bytes read and not yet cleared
    wire,           \* what the server wrote and the client has not read, in the
                    \* pieces a read can end on
    sent,           \* what the client has flushed to the server, in order
    outcome,        \* return value of complete_challenge, or Running
    server          \* the server end: messages written, closed or not

cpuVars == <<stack, registers, hist>>
loopVars == <<decoder, image, relative_instruction_pointer, exit_code,
              stdout, stderr, result, trace>>
loaderVars == <<binary, loaded>>
clientVars == <<state, recv_buf, wire, sent, outcome, server>>
vars == <<stack, registers, hist, decoder, image, relative_instruction_pointer,
          exit_code, stdout, stderr, result, trace, binary, loaded,
          state, recv_buf, wire, sent, outcome, server>>

-----------------------------------------------------------------------------
(* u64 arithmetic on 16-bit limbs                                          *)

LimbBase == 2^16

Limbs == 0..(LimbBase - 1)

Zero64 == <<0, 0, 0, 0>>

Max64 == <<LimbBase - 1, LimbBase - 1, LimbBase - 1, LimbBase - 1>>

\* n as u64, for a natural n below 2^31
FromNat(n) == <<n % LimbBase, n \div LimbBase, 0, 0>>

\* whether v fits one limb, and then its value
IsSmall(v) == v[2] = 0 /\ v[3] = 0 /\ v[4] = 0

\* v > n for a natural n below 2^16
GtNat(v, n) == ~IsSmall(v) \/ v[1] > n

\* a < b on u64
Lt64(a, b) ==
    \E i \in 1..4 : a[i] < b[i] /\ \A j \in (i+1)..4 : a[j] = b[j]

\* u64::wrapping_add
WrappingAdd(a, b) ==
    LET s1 == a[1] + b[1]
        s2 == a[2] + b[2] + (s1 \div LimbBase)
        s3 == a[3] + b[3] + (s2 \div LimbBase)
        s4 == a[4] + b[4] + (s3 \div LimbBase)
    IN  <<s1 % LimbBase, s2 % LimbBase, s3 % LimbBase, s4 % LimbBase>>

\* u64::wrapping_sub
WrappingSub(a, b) ==
    LET d1 == a[1] - b[1]
        c1 == IF d1 < 0 THEN 1 ELSE 0
        d2 == a[2] - b[2] - c1
        c2 == IF d2 < 0 THEN 1 ELSE 0
        d3 == a[3] - b[3] - c2
        c3 == IF d3 < 0 THEN 1 ELSE 0
        d4 == a[4] - b[4] - c3
    IN  <<d1 % LimbBase, d2 % LimbBase, d3 % LimbBase, d4 % LimbBase>>

\* u64::checked_sub: <<>> is None, <<d>> is Some(d)
checked_sub(a, b) == IF Lt64(a, b) THEN <<>> ELSE <<WrappingSub(a, b)>>

\* u64::saturating_sub
saturating_sub(a, b) == IF Lt64(a, b) THEN Zero64 ELSE WrappingSub(a, b)

\* v % m for a modulus 0 < m < 2^15 (Horner over the limbs)
Mod64(v, m) ==
    LET r4 == v[4] % m
        r3 == (r4 * LimbBase + v[3]) % m
        r2 == (r3 * LimbBase + v[2]) % m
    IN  (r2 * LimbBase + v[1]) % m

RECURSIVE XorNat(_, _, _)
\* bitwise xor of the low `bits` bits of a and b
XorNat(a, b, bits) ==
    IF bits = 0 THEN 0
    ELSE ((a + b) % 2) + 2 * XorNat(a \div 2, b \div 2, bits - 1)

\* a ^ b on u64
Xor64(a, b) == [i \in 1..4 |-> XorNat(a[i], b[i], 16)]

\* value as u16 (kept as a natural), and back as u64
AsU16(v) == v[1]

U16AsU64(x) == <<x, 0, 0, 0>>

\* value as u32 (kept as two limbs), and back as u64
AsU32(v) == <<v[1], v[2]>>

U32AsU64(x) == <<x[1], x[2], 0, 0>>

\* u64::to_le_bytes: eight bytes, least significant first
to_le_bytes(v) ==
    [i \in 1..8 |->
        LET l == v[((i - 1) \div 2) + 1]
        IN  IF i % 2 = 1 THEN l % 256 ELSE l \div 256]

\* u8/u16/u32/u64::from_le_bytes(bytes) as u64, for Len(bytes) in {1,2,4,8}
from_le_bytes(bytes) ==
    [j \in 1..4 |->
        LET lo == IF 2 * j - 1 <= Len(bytes) THEN bytes[2 * j - 1] ELSE 0
            hi == IF 2 * j <= Len(bytes) THEN bytes[2 * j] ELSE 0
        IN  lo + 256 * hi]

-----------------------------------------------------------------------------
(* mem/mod.rs: StackPointer                                                *)

\* StackPointer::new without the reduction modulo stack_size
StackPointer_new_unreduced(value, stack_size) ==
    [pointer |-> value[1], stack_size |-> stack_size]

\* StackPointer::new(value: u64, stack_size); value % 0 panics
StackPointer_new(value, stack_size) ==
    IF stack_size = 0 THEN "panic"
    ELSE [pointer |-> Mod64(value, stack_size), stack_size |-> stack_size]

\* #[derive(Default)]
StackPointer_default == [pointer |-> 0, stack_size |-> 0]

\* StackPointer::value
SpValue(sp) == sp.pointer

\* impl Add<u64> for StackPointer
StackPointer_add_u64(self, x) ==
    StackPointer_new(FromNat(self.pointer + Mod64(x, self.stack_size)),
                     self.stack_size)

\* StackPointer::set_wrapping
StackPointer_set_wrapping(self, value) ==
    [self EXCEPT !.pointer = Mod64(value, self.stack_size)]

\* impl Add<StackPointer> for StackPointer
StackPointer_add_sp(self, x) ==
    StackPointer_new(FromNat(self.pointer + x.pointer), self.stack_size)

\* impl Sub<StackPointer> for StackPointer: the body adds the two offsets
StackPointer_sub_sp(self, x) ==
    StackPointer_new(FromNat(self.pointer + x.pointer), self.stack_size)

\* Sub<u64> whose wrapping branch is off by one
StackPointer_sub_u64_off_by_one(self, x0) ==
    LET x == Mod64(x0, self.stack_size)
    IN  IF self.pointer >= x
        THEN StackPointer_new(FromNat(self.pointer - x), self.stack_size)
        ELSE StackPointer_new(FromNat(self.stack_size - 1 - (x - self.pointer)),
                              self.stack_size)

\* impl Sub<u64> for StackPointer
StackPointer_sub_u64(self, x0) ==
    LET x == Mod64(x0, self.stack_size)
    IN  IF self.pointer >= x
        THEN StackPointer_new(FromNat(self.pointer - x), self.stack_size)
        ELSE StackPointer_new(FromNat(self.stack_size - (x - self.pointer)),
                              self.stack_size)

-----------------------------------------------------------------------------
(* cpu/registers.rs and cpu/mod.rs: Registers, Cpu                         *)

STACK_SIZE == 1024

Bytes == 0..255

CRNames == <<"CR0", "CR1", "CR2", "CR3", "CR4", "CR5", "CR6", "CR7", "CR8",
             "CR9", "CR10", "CR11", "CR12", "CR13", "CR14", "CR15">>

CRSlots == <<"cr0", "cr1", "cr2", "cr3", "cr4", "cr5", "cr6", "cr7", "cr8",
             "cr9", "cr10", "cr11", "cr12", "cr13", "cr14", "cr15">>

DRNames == <<"DR0", "DR1", "DR2", "DR3", "DR4", "DR5", "DR6", "DR7", "DR8",
             "DR9", "DR10", "DR11", "DR12", "DR13", "DR14", "DR15">>

DRSlots == <<"dr0", "dr1", "dr2", "dr3", "dr4", "dr5", "dr6", "dr7", "dr8",
             "dr9", "dr10", "dr11", "dr12", "dr13", "dr14", "dr15">>

TRNames == <<"TR0", "TR1", "TR2", "TR3", "TR4", "TR5", "TR6", "TR7">>

TRSlots == <<"tr0", "tr1", "tr2", "tr3", "tr4", "tr5", "tr6", "tr7">>

Range(s) == {s[i] : i \in 1..Len(s)}

IndexOf(s, x) == CHOOSE i \in 1..Len(s) : s[i] = x

GpSlots == {"rax", "rbx", "rcx", "rdx", "rbp", "rsi", "rdi", "r8", "r9",
            "r10", "r11", "r12", "r13", "r14", "r15"}

SegmentSlots == {"cs", "ds", "ss", "es", "fs", "gs"}

\* the fields of struct Registers holding a u64
U64Slots == GpSlots \cup {"rip", "rflags"} \cup Range(CRSlots) \cup Range(DRSlots)

Slots == U64Slots \cup {"rsp"} \cup SegmentSlots \cup Range(TRSlots)

\* the match arms shared by get_register_u64 and set_register: the backing
\* field of a register name, or "none" for the fall-through arm
RegisterSlot(register) ==
    CASE register \in {"AL", "AH", "AX", "EAX", "RAX"} -> "rax"
      [] register \in {"CL", "CH", "CX", "ECX", "RCX"} -> "rcx"
      [] register \in {"DL", "DH", "DX", "EDX", "RDX"} -> "rdx"
      [] register \in {"BL", "BH", "BX", "EBX", "RBX"} -> "rbx"
      [] register \in {"SPL", "SP", "ESP", "RSP"} -> "rsp"
      [] register \in {"BPL", "BP", "EBP", "RBP"} -> "rbp"
      [] register \in {"SIL", "SI", "ESI", "RSI"} -> "rsi"
      [] register \in {"DIL", "DI", "EDI", "RDI"} -> "rdi"
      [] register \in {"R8L", "R8W", "R8D", "R8"} -> "r8"
      [] register \in {"R9L", "R9W", "R9D", "R9"} -> "r9"
      [] register \in {"R10L", "R10W", "R10D", "R10"} -> "r10"
      [] register \in {"R11L", "R11W", "R11D", "R11"} -> "r11"
      [] register \in {"R12L", "R12W", "R12D", "R12"} -> "r12"
      [] register \in {"R13L", "R13W", "R13D", "R13"} -> "r13"
      [] register \in {"R14L", "R14W", "R14D", "R14"} -> "r14"
      [] register \in {"R15L", "R15W", "R15D", "R15"} -> "r15"
      [] register \in {"EIP", "RIP"} -> "rip"
      [] register = "ES" -> "es"
      [] register = "CS" -> "cs"
      [] register = "SS" -> "ss"
      [] register = "DS" -> "ds"
      [] register = "FS" -> "fs"
      [] register = "GS" -> "gs"
      [] register \in Range(CRNames) -> CRSlots[IndexOf(CRNames, register)]
      [] register \in Range(DRNames) -> DRSlots[IndexOf(DRNames, register)]
      [] register \in Range(TRNames) -> TRSlots[IndexOf(TRNames, register)]
      [] OTHER -> "none"

\* iced_x86 Register::size(), in bytes, for the names used here
RegisterSize(register) ==
    CASE register \in {"AL", "AH", "CL", "CH", "DL", "DH", "BL", "BH", "SPL",
                       "BPL", "SIL", "DIL", "R8L", "R9L", "R10L", "R11L",
                       "R12L", "R13L", "R14L", "R15L"} -> 1
      [] register \in {"AX", "CX", "DX", "BX", "SP", "BP", "SI", "DI", "R8W",
                       "R9W", "R10W", "R11W", "R12W", "R13W", "R14W", "R15W",
                       "ES", "CS", "SS", "DS", "FS", "GS"} -> 2
      [] register \in {"EAX", "ECX", "EDX", "EBX", "ESP", "EBP", "ESI", "EDI",
                       "R8D", "R9D", "R10D", "R11D", "R12D", "R13D", "R14D",
                       "R15D", "EIP"} -> 4
      [] register \in Range(TRNames) -> 4
      [] register \in {"XMM0"} -> 16
      [] OTHER -> 8

\* #[derive(Default)] for Registers: every field zero, rsp the default StackPointer
Registers_default ==
    [s \in Slots |->
        CASE s = "rsp" -> StackPointer_default
          [] s \in SegmentSlots -> 0
          [] s \in Range(TRSlots) -> <<0, 0>>
          [] OTHER -> Zero64]

\* impl Default for Cpu (Cpu::new): zeroed stack, rsp = StackPointer::new(0, STACK_SIZE)
Cpu_new ==
    [stack |-> [a \in 0..(STACK_SIZE - 1) |-> 0],
     registers |-> [Registers_default EXCEPT
                        !["rsp"] = StackPointer_new(Zero64, STACK_SIZE)]]

\* Cpu::get_register_u64: [err, val]
get_register_u64(regs, register) ==
    LET slot == RegisterSlot(register)
    IN  IF slot = "none"
        THEN [err |-> <<"UnimplementedRegister", register>>, val |-> Zero64]
        ELSE [err |-> <<"Ok">>,
              val |-> CASE slot = "rsp" -> FromNat(regs[slot].pointer)
                        [] slot \in SegmentSlots -> U16AsU64(regs[slot])
                        [] slot \in Range(TRSlots) -> U32AsU64(regs[slot])
                        [] OTHER -> regs[slot]]

\* set_register merging a narrow alias into the low bytes of its field, as
\* the 8- and 16-bit forms do on hardware
set_register_keep_upper(regs, register, value) ==
    LET slot == RegisterSlot(register)
        size == RegisterSize(register)
    IN  IF slot = "none"
        THEN [err |-> <<"UnimplementedRegister", register>>, registers |-> regs]
        ELSE [err |-> <<"Ok">>,
              registers |->
                [regs EXCEPT ![slot] =
                    CASE slot = "rsp" -> StackPointer_new(value, STACK_SIZE)
                      [] slot \in SegmentSlots -> AsU16(value)
                      [] slot \in Range(TRSlots) -> AsU32(value)
                      [] size = 1 -> <<(value[1] % 256) + 256 * (@[1] \div 256),
                                       @[2], @[3], @[4]>>
                      [] size = 2 -> <<value[1], @[2], @[3], @[4]>>
                      [] OTHER -> value]]

\* set_register storing only the low 32 bits in the 64-bit fields
set_register_u32(regs, register, value) ==
    LET slot == RegisterSlot(register)
    IN  IF slot = "none"
        THEN [err |-> <<"UnimplementedRegister", register>>, registers |-> regs]
        ELSE [err |-> <<"Ok">>,
              registers |->
                [regs EXCEPT ![slot] =
                    CASE slot = "rsp" -> StackPointer_new(value, STACK_SIZE)
                      [] slot \in SegmentSlots -> AsU16(value)
                      [] slot \in Range(TRSlots) -> AsU32(value)
                      [] OTHER -> U32AsU64(AsU32(value))]]

\* Cpu::set_register: [err, registers]
set_register(regs, register, value) ==
    LET slot == RegisterSlot(register)
    IN  IF slot = "none"
        THEN [err |-> <<"UnimplementedRegister", register>>, registers |-> regs]
        ELSE [err |-> <<"Ok">>,
              registers |->
                [regs EXCEPT ![slot] =
                    CASE slot = "rsp" -> StackPointer_new(value, STACK_SIZE)
                      [] slot \in SegmentSlots -> AsU16(value)
                      [] slot \in Range(TRSlots) -> AsU32(value)
                      [] OTHER -> value]]

\* the alignment padding computed by push_stack_value and pop_stack_value
Alignment(size) == IF size % 8 # 0 THEN 8 - (size % 8) ELSE 0

\* the push loop's iteration storing before it moves rsp
PushStep_store_first(cpu, x) ==
    LET sp == StackPointer_sub_u64(cpu.registers["rsp"], FromNat(1))
    IN  [stack |-> [cpu.stack EXCEPT ![SpValue(cpu.registers["rsp"])] = x],
         registers |-> [cpu.registers EXCEPT !["rsp"] = sp]]

\* one iteration of the push loop: rsp -= 1; stack[rsp] = x
PushStep(cpu, x) ==
    LET sp == StackPointer_sub_u64(cpu.registers["rsp"], FromNat(1))
    IN  [stack |-> [cpu.stack EXCEPT ![SpValue(sp)] = x],
         registers |-> [cpu.registers EXCEPT !["rsp"] = sp]]

RECURSIVE PushLoop(_, _, _, _)
\* for x in value.iter().rev() { PushStep }: the iterations for value[hi] down
\* to value[lo], in that order (split in halves to bound the nesting depth)
PushLoop(cpu, value, lo, hi) ==
    IF lo > hi THEN cpu
    ELSE IF lo = hi THEN PushStep(cpu, value[lo])
    ELSE LET mid == (lo + hi) \div 2
             first == PushLoop(cpu, value, mid + 1, hi)
         IN  \* the test makes TLC finish the first half before the second
             IF SpValue(first.registers["rsp"]) >= 0
             THEN PushLoop(first, value, lo, mid) ELSE first

\* Cpu::push_stack_value: [err, cpu]
push_stack_value(cpu, value) ==
    IF Len(value) > STACK_SIZE
    THEN [err |-> <<"StackOverflowWrite">>, cpu |-> cpu]
    ELSE LET aligned == [cpu EXCEPT !.registers["rsp"] =
                            StackPointer_sub_u64(@, FromNat(Alignment(Len(value))))]
         IN  [err |-> <<"Ok">>, cpu |-> PushLoop(aligned, value, 1, Len(value))]

\* the pop loop's iteration advancing rsp before it reads
PopStep_advance_first(st) ==
    LET sp == StackPointer_add_u64(st.cpu.registers["rsp"], FromNat(1))
    IN  [cpu |-> [st.cpu EXCEPT !.registers["rsp"] = sp],
         value |-> Append(st.value, st.cpu.stack[SpValue(sp)])]

\* one iteration of the pop loop: value.push(stack[rsp]); rsp += 1
PopStep(st) ==
    [cpu |-> [st.cpu EXCEPT !.registers["rsp"] = StackPointer_add_u64(@, FromNat(1))],
     value |-> Append(st.value, st.cpu.stack[SpValue(st.cpu.registers["rsp"])])]

RECURSIVE PopLoop(_, _)
\* for _ in 0..size { PopStep }: `left` iterations from st = [cpu, value]
\* (split in halves to bound the nesting depth)
PopLoop(st, left) ==
    IF left = 0 THEN st
    ELSE IF left = 1 THEN PopStep(st)
    ELSE LET first == PopLoop(st, left \div 2)
         IN  \* the test makes TLC finish the first half before the second
             IF Len(first.value) >= 0
             THEN PopLoop(first, left - (left \div 2)) ELSE first

\* Cpu::pop_stack_value: [err, cpu, value]
pop_stack_value(cpu, size) ==
    IF size > STACK_SIZE
    THEN [err |-> <<"StackOverflowRead">>, cpu |-> cpu, value |-> <<>>]
    ELSE LET read == PopLoop([cpu |-> cpu, value |-> <<>>], size)
         IN  [err |-> <<"Ok">>,
              cpu |-> [read.cpu EXCEPT !.registers["rsp"] =
                          StackPointer_add_u64(@, FromNat(Alignment(size)))],
              value |-> read.value]

\* Cpu::push_stack_register: [err, cpu]
push_stack_register(cpu, register) ==
    LET got == get_register_u64(cpu.registers, register)
        bytes == to_le_bytes(got.val)
        size == RegisterSize(register)
        \* value.resize(register.size(), 0)
        value == [i \in 1..size |-> IF i <= 8 THEN bytes[i] ELSE 0]
    IN  IF got.err[1] # "Ok" THEN [err |-> got.err, cpu |-> cpu]
        ELSE push_stack_value(cpu, value)

\* Cpu::pop_stack_register: [err, cpu]
pop_stack_register(cpu, register) ==
    LET popped == pop_stack_value(cpu, RegisterSize(register))
        size == Len(popped.value)
    IN  IF popped.err[1] # "Ok" THEN [err |-> popped.err, cpu |-> popped.cpu]
        ELSE IF size \notin {1, 2, 4, 8}
        THEN [err |-> <<"UnimplementedRegisterSize", size>>, cpu |-> popped.cpu]
        ELSE LET set == set_register(popped.cpu.registers, register,
                                     from_le_bytes(popped.value))
             IN  [err |-> set.err,
                  cpu |-> [popped.cpu EXCEPT !.registers = set.registers]]

\* an iced_x86 Instruction as the engine reads it: code(), op0_kind(),
\* op0_register(), op1_register(), immediate64()/immediate8(), near_branch64(), len()
Instr(code, kind, op0, op1, imm, target, len) ==
    [code |-> code, op0_kind |-> kind, op0_register |-> op0, op1_register |-> op1,
     immediate |-> imm, near_branch64 |-> target, len |-> len]

\* an instruction without an implementation passed over as if it had run
unimplemented_instruction_skipped(cpu, instruction) == [err |-> <<"Ok">>, cpu |-> cpu]

\* Err(Error::UnimplementedInstruction(instruction))
unimplemented_instruction(cpu, instruction) ==
    [err |-> <<"UnimplementedInstruction", instruction>>, cpu |-> cpu]

\* Cpu::execute_instruction: [err, cpu]
execute_instruction(cpu, instruction) ==
    LET Set(register, value) ==
            LET set == set_register(cpu.registers, register, value)
            IN  [err |-> set.err, cpu |-> [cpu EXCEPT !.registers = set.registers]]
        Unimplemented == unimplemented_instruction(cpu, instruction)
    IN  CASE instruction.code = "Mov_r64_imm64" ->
                Set(instruction.op0_register, instruction.immediate)
          [] instruction.code = "Mov_rm64_r64" ->
                IF instruction.op0_kind = "Register"
                THEN LET src == get_register_u64(cpu.registers, instruction.op1_register)
                     IN  IF src.err[1] # "Ok" THEN [err |-> src.err, cpu |-> cpu]
                         ELSE Set(instruction.op0_register, src.val)
                ELSE Unimplemented
          [] instruction.code = "Push_r64" ->
                push_stack_register(cpu, instruction.op0_register)
          [] instruction.code = "Pushq_imm8" ->
                \* instruction.immediate8().to_le_bytes(): one byte
                push_stack_value(cpu, <<instruction.immediate[1] % 256>>)
          [] instruction.code = "Pop_r64" ->
                pop_stack_register(cpu, instruction.op0_register)
          [] instruction.code = "Jmp_rel8_64" ->
                [err |-> <<"Ok">>,
                 cpu |-> [cpu EXCEPT !.registers["rip"] = instruction.near_branch64]]
          [] instruction.code = "Xor_rm32_r32" ->
                IF instruction.op0_kind = "Register"
                THEN LET a == get_register_u64(cpu.registers, instruction.op0_register)
                         b == get_register_u64(cpu.registers, instruction.op1_register)
                     IN  IF a.err[1] # "Ok" THEN [err |-> a.err, cpu |-> cpu]
                         ELSE IF b.err[1] # "Ok" THEN [err |-> b.err, cpu |-> cpu]
                         ELSE Set(instruction.op0_register, Xor64(a.val, b.val))
                ELSE Unimplemented
          [] OTHER -> Unimplemented

-----------------------------------------------------------------------------
(* program/mod.rs: handle_syscall                                          *)

\* a UTF-8 continuation byte
Cont(b) == b >= 128 /\ b <= 191

\* the length of the sequence a lead byte opens; 0 for a byte that opens none
SeqLen(b) ==
    CASE b <= 127 -> 1
      [] b >= 194 /\ b <= 223 -> 2
      [] b >= 224 /\ b <= 239 -> 3
      [] b >= 240 /\ b <= 244 -> 4
      [] OTHER -> 0

\* a well-formed sequence starts at buf[i]
WellFormedAt(buf, i) ==
    LET b == buf[i]
        n == SeqLen(b)
        At(k) == IF i + k <= Len(buf) THEN buf[i + k] ELSE 0
    IN  /\ n > 0
        /\ i + n - 1 <= Len(buf)
        /\ \A k \in 1..(n - 1) : Cont(At(k))
        /\ b = 224 => At(1) >= 160
        /\ b = 237 => At(1) <= 159
        /\ b = 240 => At(1) >= 144
        /\ b = 244 => At(1) <= 143

\* String::from_utf8(buf).is_ok(): every byte opens a well-formed sequence or
\* continues the one opened by the nearest lead byte before it
IsUtf8(buf) ==
    \A i \in 1..Len(buf) :
        IF Cont(buf[i])
        THEN \E k \in 1..3 :
                /\ i - k >= 1
                /\ ~Cont(buf[i - k])
                /\ SeqLen(buf[i - k]) > k
                /\ \A m \in 1..(k - 1) : Cont(buf[i - m])
        ELSE WellFormedAt(buf, i)

\* the read loop body without buf_ptr += 1
ReadStep_no_advance(stk, st) ==
    [buf_ptr |-> st.buf_ptr,
     buf |-> Append(st.buf, stk[SpValue(st.buf_ptr)])]

\* one iteration of the read loop: buf.push(stack[buf_ptr]); buf_ptr += 1
ReadStep(stk, st) ==
    [buf_ptr |-> StackPointer_add_u64(st.buf_ptr, FromNat(1)),
     buf |-> Append(st.buf, stk[SpValue(st.buf_ptr)])]

RECURSIVE ReadLoop(_, _, _)
\* for _ in 0..count { ReadStep }: `left` iterations from st = [buf_ptr, buf]
\* (split in halves to bound the nesting depth)
ReadLoop(stk, st, left) ==
    IF left = 0 THEN st
    ELSE IF left = 1 THEN ReadStep(stk, st)
    ELSE LET first == ReadLoop(stk, st, left \div 2)
         IN  \* the test makes TLC finish the first half before the second
             IF Len(first.buf) >= 0
             THEN ReadLoop(stk, first, left - (left \div 2)) ELSE first

\* the write arm reading through rsp, as a pop does
sys_read_popping(cpu, count) ==
    LET popped == pop_stack_value(cpu, count)
    IN  [cpu |-> popped.cpu, buf |-> popped.value]

\* the read loop of the write arm: count bytes from a cursor of its own that
\* starts at rsi; the cpu is only read
sys_read(cpu, count) ==
    LET buf_ptr == StackPointer_new(cpu.registers["rsi"], STACK_SIZE)
    IN  [cpu |-> cpu,
         buf |-> ReadLoop(cpu.stack, [buf_ptr |-> buf_ptr, buf |-> <<>>], count).buf]

\* the count test accepting one byte less than the stack holds
count_exceeds_or_equals(count, len) == GtNat(count, len - 1)

\* count > cpu.stack.len()
count_exceeds(count, len) == GtNat(count, len)

\* the descriptor match with the two accumulators exchanged
write_route_exchanged(fd, buf_str, out, errout) ==
    CASE fd = <<1, 0, 0, 0>> ->
            [err |-> <<"Ok">>, stdout |-> out, stderr |-> errout \o buf_str]
      [] fd = <<2, 0, 0, 0>> ->
            [err |-> <<"Ok">>, stdout |-> out \o buf_str, stderr |-> errout]
      [] OTHER ->
            [err |-> <<"UnimplementedFileDescriptor", fd>>,
             stdout |-> out, stderr |-> errout]

\* match cpu.registers.rdi: push_str on stdout for 1, on stderr for 2, an
\* error for any other descriptor
write_route(fd, buf_str, out, errout) ==
    CASE fd = <<1, 0, 0, 0>> ->
            [err |-> <<"Ok">>, stdout |-> out \o buf_str, stderr |-> errout]
      [] fd = <<2, 0, 0, 0>> ->
            [err |-> <<"Ok">>, stdout |-> out, stderr |-> errout \o buf_str]
      [] OTHER ->
            [err |-> <<"UnimplementedFileDescriptor", fd>>,
             stdout |-> out, stderr |-> errout]

SYS_write == <<1, 0, 0, 0>>

SYS_exit == <<60, 0, 0, 0>>

\* handle_syscall taking every number other than write for exit
handle_syscall_default_exit(cpu, code, out, errout) ==
    LET regs == cpu.registers
        Fail(e) == [err |-> e, cpu |-> cpu, exit_code |-> code, stdout |-> out,
                    stderr |-> errout]
    IN  CASE regs["rax"] = SYS_write ->
                IF count_exceeds(regs["rdx"], STACK_SIZE)
                THEN Fail(<<"Cpu", <<"StackOverflowRead">>>>)
                ELSE LET count == regs["rdx"][1]
                         read == sys_read(cpu, count)
                         buf == read.buf
                     IN  IF ~IsUtf8(buf)
                         THEN [Fail(<<"FromUtf8Error">>) EXCEPT !.cpu = read.cpu]
                         ELSE LET routed == write_route(regs["rdi"], buf, out, errout)
                              IN  [err |-> routed.err, cpu |-> read.cpu,
                                   exit_code |-> code, stdout |-> routed.stdout,
                                   stderr |-> routed.stderr]
          [] OTHER ->
                [err |-> <<"Ok">>, cpu |-> cpu, exit_code |-> <<regs["rdi"]>>,
                 stdout |-> out, stderr |-> errout]

\* handle_syscall: [err, cpu, exit_code, stdout, stderr]
handle_syscall(cpu, code, out, errout) ==
    LET regs == cpu.registers
        Fail(e) == [err |-> e, cpu |-> cpu, exit_code |-> code, stdout |-> out,
                    stderr |-> errout]
    IN  CASE regs["rax"] = SYS_write ->
                IF count_exceeds(regs["rdx"], STACK_SIZE)
                THEN Fail(<<"Cpu", <<"StackOverflowRead">>>>)
                ELSE LET count == regs["rdx"][1]
                         read == sys_read(cpu, count)
                         buf == read.buf
                     IN  IF ~IsUtf8(buf)
                         THEN [Fail(<<"FromUtf8Error">>) EXCEPT !.cpu = read.cpu]
                         ELSE LET routed == write_route(regs["rdi"], buf, out, errout)
                              IN  [err |-> routed.err, cpu |-> read.cpu,
                                   exit_code |-> code, stdout |-> routed.stdout,
                                   stderr |-> routed.stderr]
          [] regs["rax"] = SYS_exit ->
                [err |-> <<"Ok">>, cpu |-> cpu, exit_code |-> <<regs["rdi"]>>,
                 stdout |-> out, stderr |-> errout]
          [] OTHER -> Fail(<<"UnimplementedSyscall", regs["rax"]>>)

-----------------------------------------------------------------------------
(* Bounds and inputs                                                       *)

\* calls made on one Cpu in the CPU-core specifications
MaxCalls == 2

\* a byte sequence of length n with varying, non-zero content
Fill(n, seed) == [i \in 1..n |-> 1 + ((seed + 7 * i) % 255)]

\* lengths around the 8-byte alignment and around the stack capacity
Sizes == {0, 1, 8, 9, STACK_SIZE, STACK_SIZE + 1}

PushValues == {Fill(n, 3) : n \in Sizes}

\* u64 values around the widths the engine truncates to
U64Values ==
    {Zero64, FromNat(1), FromNat(60), FromNat(STACK_SIZE - 1), FromNat(STACK_SIZE),
     FromNat(STACK_SIZE + 6), <<0, 1, 0, 0>>, <<5, 0, 1, 0>>, Max64}

CpuInstructions ==
    {Instr("Mov_r64_imm64", "Register", "RAX", "None", FromNat(1), Zero64, 10),
     Instr("Mov_r64_imm64", "Register", "RAX", "None", Max64, Zero64, 10),
     Instr("Mov_r64_imm64", "Register", "RSP", "None", FromNat(STACK_SIZE + 6), Zero64, 10),
     Instr("Mov_r64_imm64", "Register", "RSP", "None", Max64, Zero64, 10)}
    \cup {Instr("Mov_rm64_r64", "Register", "RSP", "RAX", Zero64, Zero64, 3),
          Instr("Mov_rm64_r64", "Memory", "None", "RAX", Zero64, Zero64, 3),
          Instr("Xor_rm32_r32", "Register", "ESP", "EAX", Zero64, Zero64, 2),
          Instr("Push_r64", "Register", "RAX", "None", Zero64, Zero64, 1),
          Instr("Push_r64", "Register", "RSP", "None", Zero64, Zero64, 1),
          Instr("Pushq_imm8", "Immediate8to64", "None", "None", FromNat(65), Zero64, 2),
          Instr("Pop_r64", "Register", "RSP", "None", Zero64, Zero64, 1),
          Instr("Pop_r64", "Register", "RDI", "None", Zero64, Zero64, 1),
          Instr("Jmp_rel8_64", "NearBranch64", "None", "None", Zero64, FromNat(4), 2),
          Instr("Nopd", "None", "None", "None", Zero64, Zero64, 1)}

-----------------------------------------------------------------------------
(* Initial values of the three groups of variables                         *)

CpuInit ==
    /\ stack = Cpu_new.stack
    /\ registers = Cpu_new.registers
    /\ hist = [n |-> 0, calls |-> <<>>]

LoopIdle ==
    /\ decoder = [ip |-> Zero64, position |-> 0]
    /\ image = <<>>
    /\ relative_instruction_pointer = Zero64
    /\ exit_code = <<>>
    /\ stdout = <<>>
    /\ stderr = <<>>
    /\ result = [kind |-> "Idle"]
    /\ trace = [decoded |-> 0, executed |-> 0, returns |-> 0,
                instruction |-> Instr("None", "None", "None", "None", Zero64, Zero64, 0)]

LoaderIdle ==
    /\ binary = [kind |-> "None"]
    /\ loaded = [kind |-> "None"]

\* no challenge client
ClientIdle ==
    /\ state = [kind |-> "None"]
    /\ recv_buf = <<>>
    /\ wire = <<>>
    /\ sent = <<>>
    /\ outcome = [kind |-> "Idle"]
    /\ server = [kind |-> "None"]

-----------------------------------------------------------------------------
(* CPU-core operations as actions on one Cpu                               *)

ThisCpu == [stack |-> stack, registers |-> registers]

\* the record of one call: what was called, with what, and what came back
Call(op, arg, err, ret) ==
    [op |-> op, arg |-> arg, err |-> err, ret |-> ret,
     rsp_before |-> registers["rsp"]]

Record(call) ==
    [n |-> hist.n + 1,
     calls |-> IF hist.calls = <<>> THEN <<call>> ELSE <<call, hist.calls[1]>>]

\* cpu.push_stack_value(value)
PushValue(value) ==
    /\ hist.n < MaxCalls
    /\ LET r == push_stack_value(ThisCpu, value)
       IN  /\ stack' = r.cpu.stack
           /\ registers' = r.cpu.registers
           /\ hist' = Record(Call("push_stack_value", value, r.err, <<>>))
    /\ UNCHANGED <<loopVars, loaderVars, clientVars>>

\* cpu.pop_stack_value(size)
PopValue(size) ==
    /\ hist.n < MaxCalls
    /\ LET r == pop_stack_value(ThisCpu, size)
       IN  /\ stack' = r.cpu.stack
           /\ registers' = r.cpu.registers
           /\ hist' = Record(Call("pop_stack_value", size, r.err, r.value))
    /\ UNCHANGED <<loopVars, loaderVars, clientVars>>

\* cpu.execute_instruction(instruction)
Execute(instruction) ==
    /\ hist.n < MaxCalls
    /\ LET r == execute_instruction(ThisCpu, instruction)
       IN  /\ stack' = r.cpu.stack
           /\ registers' = r.cpu.registers
           /\ hist' = Record(Call("execute_instruction", instruction, r.err, <<>>))
    /\ UNCHANGED <<loopVars, loaderVars, clientVars>>

\* handle_syscall(&mut cpu, &mut exit_code, &mut stdout, &mut stderr)
Syscall ==
    /\ hist.n < MaxCalls
    /\ LET r == handle_syscall(ThisCpu, exit_code, stdout, stderr)
       IN  /\ stack' = r.cpu.stack
           /\ registers' = r.cpu.registers
           /\ exit_code' = r.exit_code
           /\ stdout' = r.stdout
           /\ stderr' = r.stderr
           /\ hist' = Record(Call("handle_syscall", <<>>, r.err, <<>>))
    /\ UNCHANGED <<decoder, image, relative_instruction_pointer,
                   result, trace, loaderVars, clientVars>>

\* cpu.registers.rsp -= amount
RspSubAssign(amount, bound) ==
    /\ hist.n < bound
    /\ registers' = [registers EXCEPT !["rsp"] = StackPointer_sub_u64(@, amount)]
    /\ hist' = Record(Call("sub_assign", amount, <<"Ok">>, <<>>))
    /\ UNCHANGED <<stack, loopVars, loaderVars, clientVars>>

\* cpu.registers.rsp += amount
RspAddAssign(amount, bound) ==
    /\ hist.n < bound
    /\ registers' = [registers EXCEPT !["rsp"] = StackPointer_add_u64(@, amount)]
    /\ hist' = Record(Call("add_assign", amount, <<"Ok">>, <<>>))
    /\ UNCHANGED <<stack, loopVars, loaderVars, clientVars>>

CpuNext ==
    \/ \E value \in PushValues : PushValue(value)
    \/ \E size \in Sizes : PopValue(size)
    \/ \E instruction \in CpuInstructions : Execute(instruction)
    \/ Syscall
    \/ \E amount \in {FromNat(7), Max64} : RspSubAssign(amount, MaxCalls)
    \/ \E amount \in {FromNat(7), Max64} : RspAddAssign(amount, MaxCalls)

InitCpu == CpuInit /\ LoopIdle /\ LoaderIdle /\ ClientIdle

SpecCpu == InitCpu /\ [][CpuNext]_vars

\* the newest call and the one before it
Last == hist.calls[1]

Prev == hist.calls[2]

C2_StackPointerInRange ==
    /\ SpValue(registers["rsp"]) >= 0
    /\ SpValue(registers["rsp"]) < STACK_SIZE
    /\ registers["rsp"].stack_size = STACK_SIZE

\* mov rsp, 0xffffffffffffffff executed, and rsp wrapped into the buffer
C2_Witness ==
    /\ hist.n > 0
    /\ Last.op = "execute_instruction"
    /\ Last.arg.code = "Mov_r64_imm64"
    /\ Last.arg.op0_register = "RSP"
    /\ Last.arg.immediate = Max64
    /\ SpValue(registers["rsp"]) = STACK_SIZE - 1

-----------------------------------------------------------------------------
(* StackPointer arithmetic as a pure function: offsets, capacities and      *)
(* amounts drawn from bounded sets                                         *)

\* operations applied to one StackPointer
MaxSpCalls == 1

Capacities == {1, 10, STACK_SIZE}

Offsets == {0, 1, 5, 9, STACK_SIZE - 1}

Amounts ==
    {Zero64, FromNat(1), FromNat(5), FromNat(6), FromNat(10), FromNat(16),
     FromNat(STACK_SIZE), FromNat(STACK_SIZE + 5), FromNat(STACK_SIZE + 6),
     FromNat(3 * STACK_SIZE + 7), <<0, 1, 0, 0>>, Max64}

SpInit ==
    /\ \E c \in Capacities : \E o \in Offsets :
          /\ o < c
          /\ registers = [Cpu_new.registers EXCEPT
                              !["rsp"] = StackPointer_new(FromNat(o), c)]
    /\ stack = Cpu_new.stack
    /\ hist = [n |-> 0, calls |-> <<>>]

SpNext ==
    \/ \E amount \in Amounts : RspSubAssign(amount, MaxSpCalls)
    \/ \E amount \in Amounts : RspAddAssign(amount, MaxSpCalls)

InitSp == SpInit /\ LoopIdle /\ LoaderIdle /\ ClientIdle

SpecSp == InitSp /\ [][SpNext]_vars

\* C3 as stated: StackPointer - a has offset c - (a - o) whenever a > o (for
\* an amount beyond 16 bits that number is negative, so no offset equals it),
\* and o - a whenever a <= o.
C3_AsStated ==
    (hist.n > 0 /\ Last.op = "sub_assign")
    => LET o == Last.rsp_before.pointer
           c == Last.rsp_before.stack_size
           a == Last.arg
       IN  IF GtNat(a, o)
           THEN IsSmall(a) /\ SpValue(registers["rsp"]) = c - (a[1] - o)
           ELSE SpValue(registers["rsp"]) = o - a[1]

\* C3 amended: StackPointer - a has offset (o - (a mod c)) mod c, which lies in
\* [0, c); it is c - (a - o) for o < a <= o + c and o - a for a <= o.
C3_Wraparound ==
    (hist.n > 0 /\ Last.op = "sub_assign")
    => LET o == Last.rsp_before.pointer
           c == Last.rsp_before.stack_size
           a == Last.arg
           p == SpValue(registers["rsp"])
       IN  /\ p = (o - Mod64(a, c)) % c
           /\ p >= 0 /\ p < c
           /\ registers["rsp"].stack_size = c
           /\ (IsSmall(a) /\ a[1] > o /\ a[1] <= o + c) => p = c - (a[1] - o)
           /\ (IsSmall(a) /\ a[1] <= o) => p = o - a[1]

\* 6 was subtracted from offset 5 of a 1024-byte window: the result wrapped
C3_Witness ==
    /\ hist.n > 0
    /\ Last.op = "sub_assign"
    /\ Last.arg = FromNat(6)
    /\ Last.rsp_before = [pointer |-> 5, stack_size |-> STACK_SIZE]
    /\ SpValue(registers["rsp"]) = STACK_SIZE - 1

-----------------------------------------------------------------------------
(* Register access: set_register followed by get_register_u64              *)

\* set_register calls made on one Cpu
MaxSets == 1

RegisterNames ==
    {"RAX", "EAX", "AX", "AL", "AH", "RSP", "ESP", "SP", "SPL", "RIP", "EIP",
     "ES", "GS", "CR0", "CR15", "DR7", "TR0", "TR7", "R15D", "XMM0"}

\* cpu.set_register(register, value)
SetRegister(register, value) ==
    /\ hist.n < MaxSets
    /\ LET r == set_register(registers, register, value)
       IN  /\ registers' = r.registers
           /\ hist' = Record(Call("set_register", <<register, value>>, r.err, <<>>))
    /\ UNCHANGED <<stack, loopVars, loaderVars, clientVars>>

RegNext == \E register \in RegisterNames : \E value \in U64Values :
              SetRegister(register, value)

SpecReg == InitCpu /\ [][RegNext]_vars

\* C4 as stated: for every register name set_register accepts and every
\* 64-bit v, get_register_u64(r) after set_register(r, v) returns v.
C4_AsStated ==
    (hist.n > 0 /\ Last.op = "set_register" /\ Last.err = <<"Ok">>)
    => get_register_u64(registers, Last.arg[1]).val = Last.arg[2]

\* C4 amended: get_register_u64(r) after set_register(r, v) returns v for the
\* registers backed by a 64-bit field (general-purpose aliases other than
\* rsp's, rip/eip, CR0-15, DR0-15), v mod 2^16 for the segment registers,
\* v mod 2^32 for TR0-7 and v mod STACK_SIZE for the rsp aliases.
C4_RegisterRoundTrip ==
    (hist.n > 0 /\ Last.op = "set_register" /\ Last.err = <<"Ok">>)
    => LET register == Last.arg[1]
           v == Last.arg[2]
           got == get_register_u64(registers, register)
       IN  /\ got.err = <<"Ok">>
           /\ got.val =
                CASE register \in {"RSP", "ESP", "SP", "SPL"} ->
                        <<v[1] % STACK_SIZE, 0, 0, 0>>
                  [] register \in {"ES", "CS", "SS", "DS", "FS", "GS"} ->
                        <<v[1], 0, 0, 0>>
                  [] register \in Range(TRNames) -> <<v[1], v[2], 0, 0>>
                  [] OTHER -> v

\* a value wider than 32 bits was stored in a 64-bit register and read back
C4_Witness ==
    /\ hist.n > 0
    /\ Last.op = "set_register"
    /\ Last.err = <<"Ok">>
    /\ Last.arg = <<"RAX", Max64>>
    /\ get_register_u64(registers, "EAX").val = Max64

-----------------------------------------------------------------------------
(* program/mod.rs: execute_from_x86_decoder                                *)

\* an 8-bit displacement sign-extended to u64
SignExtend(rel) ==
    IF rel >= 0 THEN FromNat(rel) ELSE WrappingSub(Zero64, FromNat(0 - rel))

\* the instruction the bytes at one position encode; a jump carries its rel8
Cell(code, kind, op0, op1, imm, rel, len) ==
    [code |-> code, op0_kind |-> kind, op0_register |-> op0, op1_register |-> op1,
     immediate |-> imm, rel |-> rel, len |-> len]

InvalidCell == Cell("INVALID", "None", "None", "None", Zero64, 0, 1)

\* a decode that hands out the instruction at the cursor and leaves the cursor
\* where it was
Decode_cursor_kept(dec, img) ==
    LET cell == IF dec.position < Len(img) THEN img[dec.position + 1] ELSE InvalidCell
        valid == /\ cell.code # "INVALID"
                 /\ dec.position + cell.len <= Len(img)
        next_ip == WrappingAdd(dec.ip, FromNat(cell.len))
    IN  IF ~valid
        THEN [instruction |-> Instr("INVALID", "None", "None", "None", Zero64, Zero64, 0),
              decoder |-> dec]
        ELSE [instruction |->
                Instr(cell.code, cell.op0_kind, cell.op0_register, cell.op1_register,
                      cell.immediate, WrappingAdd(next_ip, SignExtend(cell.rel)),
                      cell.len),
              decoder |-> dec]

\* Decoder::decode at the cursor: [instruction, decoder]. No bytes left, bytes
\* that encode nothing and a truncated instruction all give Code::INVALID;
\* otherwise the cursor advances by the instruction's length and a branch
\* target is next ip + rel8
Decode(dec, img) ==
    LET cell == IF dec.position < Len(img) THEN img[dec.position + 1] ELSE InvalidCell
        valid == /\ cell.code # "INVALID"
                 /\ dec.position + cell.len <= Len(img)
        next_ip == WrappingAdd(dec.ip, FromNat(cell.len))
    IN  IF ~valid
        THEN [instruction |-> Instr("INVALID", "None", "None", "None", Zero64, Zero64, 0),
              decoder |-> dec]
        ELSE [instruction |->
                Instr(cell.code, cell.op0_kind, cell.op0_register, cell.op1_register,
                      cell.immediate, WrappingAdd(next_ip, SignExtend(cell.rel)),
                      cell.len),
              decoder |-> [ip |-> next_ip, position |-> dec.position + cell.len]]

\* Decoder::set_position: fails when the position is past the end of the data
set_position_ok(new_pos, img) == ~GtNat(new_pos, Len(img))

\* an INVALID test that never fires
IsInvalid_never(instruction) == FALSE

\* instruction.code() == Code::INVALID
IsInvalid(instruction) == instruction.code = "INVALID"

Running == [kind |-> "Running"]

Ok(execution) == [kind |-> "Ok", execution |-> execution]

Err(e) == [kind |-> "Err", err |-> e]

\* the offset computed with saturating_sub, as the loader computes the entry
rip_position_saturating(rip, base) == <<saturating_sub(rip, base)>>

\* cpu.registers.rip.checked_sub(relative_instruction_pointer)
rip_position(rip, base) == checked_sub(rip, base)

\* the reposition block of the loop: [result, decoder]
\* the repositioning block moving the decoder's ip and leaving its position
Reposition_ip_only(cpu, dec, img, base) ==
    IF cpu.registers["rip"] # dec.ip
    THEN LET pos == rip_position(cpu.registers["rip"], base)
         IN  IF pos = <<>>
             THEN [result |-> Err(<<"UnimplementedInstructionPointerOutsideProgramSpace">>),
                   decoder |-> dec]
             ELSE IF ~set_position_ok(pos[1], img)
             THEN [result |-> Err(<<"UnimplementedInstructionPointerOutsideProgramSpace">>),
                   decoder |-> [dec EXCEPT !.ip = cpu.registers["rip"]]]
             ELSE [result |-> Running,
                   decoder |-> [dec EXCEPT !.ip = cpu.registers["rip"]]]
    ELSE [result |-> Running, decoder |-> dec]

Reposition(cpu, dec, img, base) ==
    IF cpu.registers["rip"] # dec.ip
    THEN LET pos == rip_position(cpu.registers["rip"], base)
         IN  IF pos = <<>>
             THEN [result |-> Err(<<"UnimplementedInstructionPointerOutsideProgramSpace">>),
                   decoder |-> dec]
             ELSE IF ~set_position_ok(pos[1], img)
             THEN [result |-> Err(<<"UnimplementedInstructionPointerOutsideProgramSpace">>),
                   decoder |-> [dec EXCEPT !.ip = cpu.registers["rip"]]]
             ELSE [result |-> Running,
                   decoder |-> [ip |-> cpu.registers["rip"], position |-> pos[1][1]]]
    ELSE [result |-> Running, decoder |-> dec]

\* a loop that never sees the recorded exit code
exit_recorded_never(code) == FALSE

\* if exit_code.is_some() { break; }
exit_recorded(code) == code # <<>>

\* one iteration of the loop of execute_from_x86_decoder, and the return
\* that follows it when the loop is left:
\* [cpu, decoder, exit_code, stdout, stderr, result, instruction, executed]
loop_iteration(cpu0, dec0, img, base, code, out, errout) ==
    LET d == Decode(dec0, img)
        instruction == d.instruction
        cpu1 == [cpu0 EXCEPT !.registers["rip"] = d.decoder.ip]
        Out(cpu, dec, c, o, e, res, ran) ==
            [cpu |-> cpu, decoder |-> dec, exit_code |-> c, stdout |-> o,
             stderr |-> e, result |-> res, instruction |-> instruction,
             executed |-> ran]
    IN  IF IsInvalid(instruction)
        THEN Out(cpu0, d.decoder, code, out, errout, Err(<<"ProgramDidNotExit">>), FALSE)
        ELSE IF instruction.code = "Syscall"
        THEN LET sys == handle_syscall(cpu1, code, out, errout)
             IN  IF sys.err[1] # "Ok"
                 THEN Out(sys.cpu, d.decoder, code, out, errout, Err(sys.err), TRUE)
                 ELSE IF exit_recorded(sys.exit_code)
                 THEN Out(sys.cpu, d.decoder, sys.exit_code, sys.stdout, sys.stderr,
                          Ok([exit_code |-> sys.exit_code[1], stdout |-> sys.stdout,
                              stderr |-> sys.stderr]), TRUE)
                 ELSE LET rp == Reposition(sys.cpu, d.decoder, img, base)
                      IN  Out(sys.cpu, rp.decoder, sys.exit_code, sys.stdout, sys.stderr,
                              rp.result, TRUE)
        ELSE LET ex == execute_instruction(cpu1, instruction)
             IN  IF ex.err[1] # "Ok"
                 THEN Out(ex.cpu, d.decoder, code, out, errout,
                          Err(<<"Cpu", ex.err>>), TRUE)
                 ELSE IF exit_recorded(code)
                 THEN Out(ex.cpu, d.decoder, code, out, errout,
                          Ok([exit_code |-> code[1], stdout |-> out, stderr |-> errout]),
                          TRUE)
                 ELSE LET rp == Reposition(ex.cpu, d.decoder, img, base)
                      IN  Out(ex.cpu, rp.decoder, code, out, errout, rp.result, TRUE)

\* instructions in a generated program
MaxProgLen == 2

\* loop iterations of one run
MaxSteps == 10

\* what the bytes of a program can encode: the supported forms, an opcode the
\* CPU does not implement, and bytes that decode to nothing
Alphabet ==
    {Cell("Mov_r64_imm64", "Register", "RAX", "None", FromNat(60), 0, 10),
     Cell("Mov_r64_imm64", "Register", "RAX", "None", FromNat(1), 0, 10),
     Cell("Mov_r64_imm64", "Register", "RDI", "None", FromNat(2), 0, 10),
     Cell("Syscall", "None", "None", "None", Zero64, 0, 2),
     Cell("Pushq_imm8", "Immediate8to64", "None", "None", FromNat(65), 0, 2),
     Cell("Pop_r64", "Register", "RDX", "None", Zero64, 0, 1),
     Cell("Jmp_rel8_64", "NearBranch64", "None", "None", Zero64, 0 - 2, 2),
     Cell("Jmp_rel8_64", "NearBranch64", "None", "None", Zero64, 0 - 128, 2),
     Cell("Jmp_rel8_64", "NearBranch64", "None", "None", Zero64, 1, 2),
     Cell("Jmp_rel8_64", "NearBranch64", "None", "None", Zero64, 127, 2),
     Cell("Nopd", "None", "None", "None", Zero64, 0, 1),
     InvalidCell}

MovImm(register, n) ==
    Cell("Mov_r64_imm64", "Register", register, "None", FromNat(n), 0, 10)

\* push 'A'; write(fd, rsp, 1); exit(2) -- with fd 1, 2 and an unsupported 3
WriteThenExit(fd) ==
    <<Cell("Pushq_imm8", "Immediate8to64", "None", "None", FromNat(65), 0, 2),
      MovImm("RAX", 1), MovImm("RDI", fd), MovImm("RSI", STACK_SIZE - 8),
      MovImm("RDX", 1),
      Cell("Syscall", "None", "None", "None", Zero64, 0, 2),
      MovImm("RAX", 60), MovImm("RDI", 2),
      Cell("Syscall", "None", "None", "None", Zero64, 0, 2)>>

\* values a program loads into rdi before it exits
ExitCodes == {Zero64, FromNat(1), <<0, 0, 1, 0>>, Max64}

SyscallCell == Cell("Syscall", "None", "None", "None", Zero64, 0, 2)

\* mov rdi, fd as execute_instruction receives it
MovRdiInstr(fd) ==
    Instr("Mov_r64_imm64", "Register", "RDI", "None", FromNat(fd), Zero64, 10)

\* mov rdi, v
MovRdi(v) == Cell("Mov_r64_imm64", "Register", "RDI", "None", v, 0, 10)

\* mov rdi, v; mov rax, 0x3c; syscall -- and with the two moves exchanged
ExitWith(v) ==
    {<<MovRdi(v), MovImm("RAX", 60), SyscallCell>>,
     <<MovImm("RAX", 60), MovRdi(v), SyscallCell>>}

\* exit(2) with instructions behind it: mov rax, 0x3c; mov rdi, 2; syscall;
\* mov rdi, 1; syscall
ExitThenMore ==
    <<MovImm("RAX", 60), MovImm("RDI", 2), SyscallCell, MovImm("RDI", 1), SyscallCell>>

\* encodings execute_instruction has no implementation for: mov and xor
\* with a memory destination, cmp, and a nop
UnimplementedCells ==
    {Cell("Mov_rm64_r64", "Memory", "None", "RAX", Zero64, 0, 3),
     Cell("Xor_rm32_r32", "Memory", "None", "EAX", Zero64, 0, 2),
     Cell("Cmp_rm64_imm8", "Register", "RAX", "None", FromNat(1), 0, 4),
     Cell("Nopd", "None", "None", "None", Zero64, 0, 1)}

\* push 'A'; mov rax, 1; then one of those encodings; then exit
UnimplementedPrograms ==
    {<<Cell("Pushq_imm8", "Immediate8to64", "None", "None", FromNat(65), 0, 2),
       MovImm("RAX", 1), c, MovImm("RAX", 60), SyscallCell>> : c \in UnimplementedCells}

\* push imm8; pop into a register; write(1, rsi, rdx); exit(0). The popped
\* register supplies rsi or rdx when it is one of them
WriteParams ==
    {[imm |-> imm, pop |-> "RBX", rsi |-> at[1], rdx |-> at[2]] :
        imm \in {0, 65, 195},
        at \in {<<STACK_SIZE - 8, 1>>, <<STACK_SIZE - 8, 8>>, <<STACK_SIZE - 4, 8>>,
                <<0, 0>>, <<2 * STACK_SIZE - 8, 1>>}}
    \cup {[imm |-> imm, pop |-> "RDX", rsi |-> rsi, rdx |-> imm] :
            imm \in {1, 65, 195}, rsi \in {0, STACK_SIZE - 8}}
    \cup {[imm |-> imm, pop |-> "RSI", rsi |-> imm, rdx |-> rdx] :
            imm \in {0, 65}, rdx \in {1, 8}}

WriteProgram(p) ==
    <<Cell("Pushq_imm8", "Immediate8to64", "None", "None", FromNat(p.imm), 0, 2),
      Cell("Pop_r64", "Register", p.pop, "None", Zero64, 0, 1),
      MovImm("RAX", 1), MovImm("RDI", 1)>>
    \o (IF p.pop = "RSI" THEN <<>> ELSE <<MovImm("RSI", p.rsi)>>)
    \o (IF p.pop = "RDX" THEN <<>> ELSE <<MovImm("RDX", p.rdx)>>)
    \o <<SyscallCell, MovImm("RAX", 60), MovImm("RDI", 0), SyscallCell>>

\* sequences of 1..MaxProgLen instructions, the write-then-exit programs,
\* the exit programs, the push-pop-write-exit programs, the program that
\* has instructions behind its exit and the programs that reach an encoding
\* without an implementation
Programs ==
    UNION {[1..n -> Alphabet] : n \in 1..MaxProgLen}
    \cup {WriteThenExit(fd) : fd \in 1..3}
    \cup UNION {ExitWith(v) : v \in ExitCodes}
    \cup {WriteProgram(p) : p \in WriteParams}
    \cup {ExitThenMore}
    \cup UnimplementedPrograms

RECURSIVE Layout(_, _)
\* the image holding the instructions of prog from index i on, one after the
\* other; the bytes inside an instruction decode to nothing on their own
Layout(prog, i) ==
    IF i > Len(prog) THEN <<>>
    ELSE <<prog[i]>> \o [k \in 1..(prog[i].len - 1) |-> InvalidCell]
         \o Layout(prog, i + 1)

\* load bases: 0 and 0x400000
Bases == {Zero64, <<0, 64, 0, 0>>}

\* execute_from_x86_decoder entered with the decoder at the entry point of an
\* image loaded at `base`, up to and including Cpu::new()
Init ==
    /\ \E prog \in Programs : image = Layout(prog, 1)
    /\ \E base \in Bases : decoder = [ip |-> base, position |-> 0]
    /\ relative_instruction_pointer = WrappingSub(decoder.ip, FromNat(decoder.position))
    /\ exit_code = <<>>
    /\ stdout = <<>>
    /\ stderr = <<>>
    /\ result = Running
    /\ trace = [decoded |-> 0, executed |-> 0, returns |-> 0,
                instruction |-> Instr("None", "None", "None", "None", Zero64, Zero64, 0)]
    /\ CpuInit
    /\ LoaderIdle
    /\ ClientIdle

\* one pass through the loop body
Iterate ==
    /\ result = Running
    /\ trace.decoded < MaxSteps
    /\ \E r \in {loop_iteration(ThisCpu, decoder, image, relative_instruction_pointer,
                                exit_code, stdout, stderr)} :
           /\ stack' = r.cpu.stack
           /\ registers' = r.cpu.registers
           /\ decoder' = r.decoder
           /\ exit_code' = r.exit_code
           /\ stdout' = r.stdout
           /\ stderr' = r.stderr
           /\ result' = r.result
           /\ trace' = [decoded |-> trace.decoded + 1,
                        executed |-> trace.executed + (IF r.executed THEN 1 ELSE 0),
                        returns |-> trace.returns + (IF r.result # Running THEN 1 ELSE 0),
                        instruction |-> r.instruction]
    /\ UNCHANGED <<image, relative_instruction_pointer, hist, loaderVars, clientVars>>

Next == Iterate

Spec == Init /\ [][Next]_vars

\* C5: when the instruction just executed is a near jump whose target lies
\* below the base recorded at loop start, the run has ended with
\* UnimplementedInstructionPointerOutsideProgramSpace in that same iteration.
C5_JumpBelowBase ==
    (/\ trace.instruction.code = "Jmp_rel8_64"
     /\ Lt64(trace.instruction.near_branch64, relative_instruction_pointer))
    => /\ result = Err(<<"UnimplementedInstructionPointerOutsideProgramSpace">>)
       /\ trace.returns = 1
       /\ trace.executed = trace.decoded
       /\ registers["rip"] = trace.instruction.near_branch64

\* a jump at 0x400000 with rel8 = -128 was executed after another instruction
C5_Witness ==
    /\ trace.instruction.code = "Jmp_rel8_64"
    /\ trace.executed >= 2
    /\ relative_instruction_pointer = <<0, 64, 0, 0>>
    /\ Lt64(trace.instruction.near_branch64, relative_instruction_pointer)
    /\ result.kind = "Err"

\* C6: a run has at most one outcome; it is Ok(Execution) only when the last
\* instruction executed was a syscall with rax = 0x3c, made in a run in which
\* no instruction failed, and then the Execution carries the recorded exit code.
C6_SingleOutcome ==
    /\ result.kind \in {"Running", "Ok", "Err"}
    /\ trace.returns = (IF result = Running THEN 0 ELSE 1)
    /\ result.kind = "Ok" =>
          /\ trace.instruction.code = "Syscall"
          /\ registers["rax"] = SYS_exit
          /\ exit_code = <<result.execution.exit_code>>
          /\ result.execution.exit_code = registers["rdi"]
          /\ trace.executed = trace.decoded
    /\ result.kind = "Err" => exit_code = <<>>

\* an Execution was returned by the exit that followed a write
C6_Witness ==
    /\ result.kind = "Ok"
    /\ trace.executed = 9
    /\ trace.instruction.code = "Syscall"
    /\ result.execution.exit_code = FromNat(2)
    /\ Len(result.execution.stdout) = 1

\* C7: when the instruction just decoded is INVALID (also when the cursor is
\* at the end of the image) the run has ended with ProgramDidNotExit without
\* executing it, and the cursor was not moved past it.
C7_InvalidIsFatal ==
    trace.instruction.code = "INVALID"
    => /\ result = Err(<<"ProgramDidNotExit">>)
       /\ trace.executed = trace.decoded - 1
       /\ exit_code = <<>>

\* the cursor ran off the end of the image after executed instructions
C7_Witness ==
    /\ trace.instruction.code = "INVALID"
    /\ trace.executed >= 1
    /\ decoder.position = Len(image)
    /\ result = Err(<<"ProgramDidNotExit">>)

-----------------------------------------------------------------------------
(* Binary loader and export resolver. A buffer is modelled by what          *)
(* Object::parse makes of it: the fields of the parsed object the resolvers  *)
(* read, the buffer's bytes as an image, and for a fat container the object  *)
(* each slice binary[start..end] parses to.                                   *)

Elf(is_64, program_headers, e_entry, syms, img) ==
    [kind |-> "Elf", is_64 |-> is_64, program_headers |-> program_headers,
     e_entry |-> e_entry, syms |-> syms, image |-> img]

PE(is_64, optional_header, exports, img) ==
    [kind |-> "PE", is_64 |-> is_64, optional_header |-> optional_header,
     exports |-> exports, image |-> img]

MachO(is_64, load_commands, entry, exports, img) ==
    [kind |-> "MachO", is_64 |-> is_64, load_commands |-> load_commands,
     entry |-> entry, exports |-> exports, image |-> img]

Fat(arches, len) == [kind |-> "Fat", arches |-> arches, len |-> len]

\* Object::Archive, Object::Unknown
Unknown == [kind |-> "Unknown"]

\* Object::parse failed
ParseError == [kind |-> "ParseError"]

\* a fat_arch entry, with the object its slice of the buffer parses to
Arch(cputype, offset, size, inner) ==
    [kind |-> "Arch", cputype |-> cputype, offset |-> offset, size |-> size,
     inner |-> inner]

\* a fat_arch entry that cannot be read
Unreadable == [kind |-> "Unreadable"]

\* the smallest index in a non-empty set of indices
First(indices) == CHOOSE i \in indices : \A j \in indices : i <= j

\* find_cputype returning the first readable entry, whatever its CPU type
find_cputype_any(arches, cputype) ==
    LET stops == DOMAIN arches
    IN  IF stops = {} THEN [kind |-> "Ok", arch |-> <<>>]
        ELSE IF arches[First(stops)].kind = "Unreadable" THEN [kind |-> "Err"]
        ELSE [kind |-> "Ok", arch |-> <<arches[First(stops)]>>]

\* MultiArch::find_cputype: the first entry of that CPU type, Ok(None) when
\* there is none, Err when an entry before it cannot be read
find_cputype(arches, cputype) ==
    LET stops == {i \in DOMAIN arches :
                    \/ arches[i].kind = "Unreadable"
                    \/ arches[i].cputype = cputype}
    IN  IF stops = {} THEN [kind |-> "Ok", arch |-> <<>>]
        ELSE IF arches[First(stops)].kind = "Unreadable" THEN [kind |-> "Err"]
        ELSE [kind |-> "Ok", arch |-> <<arches[First(stops)]>>]

\* Result::or: the receiver when it is Ok, else the argument
Result_or(a, b) == IF a.kind = "Ok" THEN a ELSE b

\* the slice execute_from_binary_slice recurses into: <<>> for MachFatNoX86, else
\* <<[arch, start, end]>>. offset and size are u32, so start + size fits usize
select_slice(mach_fat) ==
    LET found == Result_or(find_cputype(mach_fat.arches, "CPU_TYPE_X86"),
                           find_cputype(mach_fat.arches, "CPU_TYPE_X86_64"))
    IN  IF found.kind = "Ok" /\ found.arch # <<>>
        THEN LET fat_arch == found.arch[1]
                 start == fat_arch.offset
                 end == start + fat_arch.size
             IN  IF start >= mach_fat.len THEN <<>>
                 ELSE IF end > mach_fat.len THEN <<>>
                 ELSE <<[arch |-> fat_arch, start |-> start, end |-> end]>>
        ELSE <<>>

\* the selection of the export resolver without its test of the slice's end
select_export_slice_unchecked_end(mach_fat) ==
    LET found == Result_or(find_cputype(mach_fat.arches, "CPU_TYPE_X86"),
                           find_cputype(mach_fat.arches, "CPU_TYPE_X86_64"))
    IN  IF found.kind = "Ok" /\ found.arch # <<>>
        THEN LET fat_arch == found.arch[1]
                 start == fat_arch.offset
                 end == start + fat_arch.size
             IN  IF start >= mach_fat.len THEN <<>>
                 ELSE <<[arch |-> fat_arch, start |-> start, end |-> end]>>
        ELSE <<>>

\* the same selection as written in get_exports_from_binary_slice
select_export_slice(mach_fat) ==
    LET found == Result_or(find_cputype(mach_fat.arches, "CPU_TYPE_X86"),
                           find_cputype(mach_fat.arches, "CPU_TYPE_X86_64"))
    IN  IF found.kind = "Ok" /\ found.arch # <<>>
        THEN LET fat_arch == found.arch[1]
                 start == fat_arch.offset
                 end == start + fat_arch.size
             IN  IF start >= mach_fat.len THEN <<>>
                 ELSE IF end > mach_fat.len THEN <<>>
                 ELSE <<[arch |-> fat_arch, start |-> start, end |-> end]>>
        ELSE <<>>

\* load_headers.first() after the filter and the sort: the lowest p_vaddr of
\* the PT_LOAD headers, <<>> when there is none
load_base(program_headers) ==
    LET vaddrs == {program_headers[i].p_vaddr : i \in
                      {j \in DOMAIN program_headers :
                          program_headers[j].p_type = "PT_LOAD"}}
    IN  IF vaddrs = {} THEN <<>>
        ELSE <<CHOOSE v \in vaddrs : \A w \in vaddrs : ~Lt64(w, v)>>

\* the decoder handed to execute_from_x86_decoder over the whole buffer
Decoder(ip, position, img) ==
    [kind |-> "Decoder", decoder |-> [ip |-> ip, position |-> position[1]],
     image |-> img]

\* Decoder::with_ip followed by set_position(entry_point_addr)?
decoder_at(ip, entry_point_addr, img) ==
    IF set_position_ok(entry_point_addr, img)
    THEN Decoder(ip, entry_point_addr, img)
    ELSE Err(<<"Iced">>)

RECURSIVE execute_from_binary_slice(_)
\* execute_from_binary_slice up to its call of execute_from_x86_decoder:
\* [resolution, slices], slices being the fat slices recursed into
execute_from_binary_slice(object) ==
    LET Out(resolution) == [resolution |-> resolution, slices |-> <<>>]
    IN  CASE object.kind = "Elf" ->
                LET base == load_base(object.program_headers)
                IN  IF base = <<>> THEN Out(Err(<<"ElfLoadHeaderMissing">>))
                    ELSE Out(decoder_at(object.e_entry,
                                        saturating_sub(object.e_entry, base[1]),
                                        object.image))
          [] object.kind = "PE" ->
                IF object.optional_header = <<>>
                THEN Out(Err(<<"PeOptionalHeaderMissing">>))
                ELSE LET header == object.optional_header[1]
                     IN  Out(decoder_at(header.address_of_entry_point,
                                        saturating_sub(header.address_of_entry_point,
                                                       header.image_base),
                                        object.image))
          [] object.kind = "MachO" ->
                LET mains == {i \in DOMAIN object.load_commands :
                                object.load_commands[i].cmd = "LC_MAIN"}
                IN  IF mains = {} THEN Out(Err(<<"MachOLoadCommandMissing">>))
                    ELSE Out(decoder_at(object.entry,
                                        object.load_commands[First(mains)].entryoff,
                                        object.image))
          [] object.kind = "Fat" ->
                LET slice == select_slice(object)
                IN  IF slice = <<>> THEN Out(Err(<<"MachFatNoX86">>))
                    ELSE LET inner == execute_from_binary_slice(slice[1].arch.inner)
                         IN  [inner EXCEPT !.slices = <<slice[1]>> \o @]
          [] object.kind = "ParseError" -> Out(Err(<<"Goblin">>))
          [] OTHER -> Out(Err(<<"UnimplementedBinaryFileFormat">>))

\* the HashMap after inserting the entries in order: a later insert of a
\* name replaces the earlier one
label_addresses(inserted) ==
    [name \in {inserted[i].name : i \in DOMAIN inserted} |->
        inserted[CHOOSE i \in DOMAIN inserted :
                    /\ inserted[i].name = name
                    /\ \A j \in DOMAIN inserted :
                          inserted[j].name = name => j <= i].value]

OkExports(map) == [kind |-> "Ok", exports |-> map]

Insert(name, value) == [name |-> name, value |-> value]

\* the ELF loop without the test of st_value
elf_inserts_keep_zero(syms) ==
    LET kept == SelectSeq(syms, LAMBDA symbol :
                    /\ symbol.name # <<>>
                    /\ symbol.name[1] # "")
    IN  [i \in DOMAIN kept |-> Insert(kept[i].name[1], kept[i].st_value)]

\* the ELF loop: zero-valued, unnamed and empty-named symbols are skipped
elf_inserts(syms) ==
    LET kept == SelectSeq(syms, LAMBDA symbol :
                    /\ symbol.st_value # Zero64
                    /\ symbol.name # <<>>
                    /\ symbol.name[1] # "")
    IN  [i \in DOMAIN kept |-> Insert(kept[i].name[1], kept[i].st_value)]

\* the PE loop: unnamed exports are skipped
pe_inserts(exports) ==
    LET kept == SelectSeq(exports, LAMBDA export : export.name # <<>>)
    IN  [i \in DOMAIN kept |-> Insert(kept[i].name[1], FromNat(kept[i].rva))]

\* the Mach-O loop: only ExportInfo::Regular entries are inserted
macho_inserts(exports) ==
    LET kept == SelectSeq(exports, LAMBDA export : export.info = "Regular")
    IN  [i \in DOMAIN kept |-> Insert(kept[i].name, kept[i].address)]

RECURSIVE get_exports_from_binary_slice(_)
\* get_exports_from_binary_slice: [resolution, slices]
get_exports_from_binary_slice(object) ==
    LET Out(resolution) == [resolution |-> resolution, slices |-> <<>>]
    IN  CASE object.kind = "Elf" ->
                Out(OkExports(label_addresses(elf_inserts(object.syms))))
          [] object.kind = "PE" ->
                Out(OkExports(label_addresses(pe_inserts(object.exports))))
          [] object.kind = "MachO" ->
                IF object.exports.kind = "Err" THEN Out(Err(<<"Goblin">>))
                ELSE Out(OkExports(label_addresses(
                            macho_inserts(object.exports.exports))))
          [] object.kind = "Fat" ->
                LET slice == select_export_slice(object)
                IN  IF slice = <<>> THEN Out(Err(<<"MachFatNoX86">>))
                    ELSE LET inner == get_exports_from_binary_slice(slice[1].arch.inner)
                         IN  [inner EXCEPT !.slices = <<slice[1]>> \o @]
          [] object.kind = "ParseError" -> Out(Err(<<"Goblin">>))
          [] OTHER -> Out(Err(<<"UnimplementedBinaryFileFormat">>))

\* let relative_instruction_pointer = decoder.ip() - decoder.position() as u64:
\* the subtraction panics on underflow in a build that checks overflow and
\* wraps in one that does not
loop_start(dec) ==
    {Running} \cup (IF Lt64(dec.ip, FromNat(dec.position))
                    THEN {[kind |-> "Panic"]} ELSE {})

-----------------------------------------------------------------------------
(* Loader inputs                                                            *)

\* entries in a fat container's architecture table
MaxArches == 2

\* symbols or exports in one table
MaxExports == 2

\* sequences over S of length 0..n
SeqsUpTo(S, n) == UNION {[1..k -> S] : k \in 0..n}

\* a thin image: four header bytes, then mov rax, 0x3c; syscall
ThinImage ==
    [k \in 1..4 |-> InvalidCell]
    \o Layout(<<MovImm("RAX", 60),
                Cell("Syscall", "None", "None", "None", Zero64, 0, 2)>>, 1)

\* 0x400000, and the entry point four bytes into an image loaded there
LoadBase == <<0, 64, 0, 0>>

EntryPoint == <<4, 64, 0, 0>>

Ph(p_type, p_vaddr) == [p_type |-> p_type, p_vaddr |-> p_vaddr]

Sym(name, st_value) == [name |-> name, st_value |-> st_value]

Names == {<<>>, <<"">>, <<"win_function">>, <<"main">>}

ElfSyms ==
    {Sym(name, value) : name \in Names, value \in {Zero64, EntryPoint, <<8, 64, 0, 0>>}}

PeExports == {[name |-> name, rva |-> rva] : name \in Names, rva \in {0, 4}}

MachOExports ==
    {[name |-> name, info |-> info, address |-> address] :
        name \in {"", "_main"}, info \in {"Regular", "Reexport"},
        address \in {Zero64, FromNat(4)}}

ThinElf == Elf(TRUE, <<Ph("PT_LOAD", LoadBase)>>, EntryPoint,
               <<Sym(<<"win_function">>, EntryPoint)>>, ThinImage)

ElfObjects ==
    {Elf(is_64, program_headers, e_entry, <<>>, ThinImage) :
        is_64 \in BOOLEAN,
        program_headers \in
            {<<>>, <<Ph("PT_NOTE", Zero64)>>, <<Ph("PT_LOAD", LoadBase)>>,
             <<Ph("PT_NOTE", Zero64), Ph("PT_LOAD", LoadBase)>>,
             <<Ph("PT_LOAD", <<16, 64, 0, 0>>), Ph("PT_LOAD", LoadBase)>>},
        e_entry \in {EntryPoint, Zero64, <<16, 64, 0, 0>>, <<100, 64, 0, 0>>}}
    \cup {Elf(TRUE, <<Ph("PT_LOAD", LoadBase)>>, EntryPoint, syms, ThinImage) :
            syms \in SeqsUpTo(ElfSyms, MaxExports)}

PeObjects ==
    {PE(TRUE, optional_header, <<>>, ThinImage) :
        optional_header \in
            {<<>>}
            \cup {<<[image_base |-> image_base, address_of_entry_point |-> entry]>> :
                    image_base \in {Zero64, LoadBase},
                    entry \in {EntryPoint, FromNat(4), FromNat(100)}}}
    \cup {PE(TRUE, <<[image_base |-> LoadBase, address_of_entry_point |-> EntryPoint]>>,
             exports, ThinImage) :
            exports \in SeqsUpTo(PeExports, MaxExports)}

Main(entryoff) == [cmd |-> "LC_MAIN", entryoff |-> entryoff]

MachOObjects ==
    {MachO(TRUE, load_commands, entry, [kind |-> "Err"], ThinImage) :
        load_commands \in
            {<<>>, <<[cmd |-> "LC_SEGMENT_64"]>>,
             <<[cmd |-> "LC_SEGMENT_64"], Main(FromNat(4))>>,
             <<Main(FromNat(100))>>},
        entry \in {EntryPoint, FromNat(4), Zero64}}
    \cup {MachO(TRUE, <<Main(FromNat(4))>>, EntryPoint,
                [kind |-> "Ok", exports |-> exports], ThinImage) :
            exports \in SeqsUpTo(MachOExports, MaxExports)}

\* a 64-byte fat container: slices of 16 bytes inside it, starting at its end
\* and running over its end, holding a thin ELF or bytes that do not parse
Arches ==
    {Unreadable}
    \cup {Arch(cputype, 48, 16, inner) :
            cputype \in {"CPU_TYPE_X86", "CPU_TYPE_X86_64", "CPU_TYPE_ARM64"},
            inner \in {ThinElf, ParseError}}
    \cup {Arch(cputype, offset, 16, ThinElf) :
            cputype \in {"CPU_TYPE_X86", "CPU_TYPE_X86_64", "CPU_TYPE_ARM64"},
            offset \in {56, 64}}

FatObjects == {Fat(arches, 64) : arches \in SeqsUpTo(Arches, MaxArches)}

Binaries ==
    ElfObjects \cup PeObjects \cup MachOObjects \cup FatObjects
    \cup {Unknown, ParseError}

-----------------------------------------------------------------------------
(* The loader specification: one buffer, resolved once for execution or for *)
(* its exports; an execution then runs the loop                              *)

InitLoader ==
    /\ binary \in Binaries
    /\ loaded = [kind |-> "None"]
    /\ CpuInit
    /\ LoopIdle
    /\ ClientIdle

\* execute_from_binary_slice(binary), as far as the start of the loop
ExecuteFromBinarySlice ==
    /\ loaded.kind = "None"
    /\ \E r \in {execute_from_binary_slice(binary)} :
          /\ loaded' = [kind |-> "Done", op |-> "execute",
                        resolution |-> r.resolution, slices |-> r.slices]
          /\ IF r.resolution.kind = "Err"
             THEN /\ result' = r.resolution
                  /\ UNCHANGED <<decoder, image, relative_instruction_pointer>>
             ELSE /\ decoder' = r.resolution.decoder
                  /\ image' = r.resolution.image
                  /\ relative_instruction_pointer' =
                        WrappingSub(r.resolution.decoder.ip,
                                    FromNat(r.resolution.decoder.position))
                  /\ result' \in loop_start(r.resolution.decoder)
    /\ UNCHANGED <<cpuVars, exit_code, stdout, stderr, trace, binary, clientVars>>

\* get_exports_from_binary_slice(binary)
GetExportsFromBinarySlice ==
    /\ loaded.kind = "None"
    /\ \E r \in {get_exports_from_binary_slice(binary)} :
          loaded' = [kind |-> "Done", op |-> "exports",
                     resolution |-> r.resolution, slices |-> r.slices]
    /\ UNCHANGED <<cpuVars, loopVars, binary, clientVars>>

LoaderNext == ExecuteFromBinarySlice \/ GetExportsFromBinarySlice \/ Iterate

SpecLoader == InitLoader /\ [][LoaderNext]_vars

X86Types == {"CPU_TYPE_X86", "CPU_TYPE_X86_64"}

Resolved == loaded.kind = "Done"

\* the slice of a fat_arch entry lies within a buffer of this length
WithinBuffer(arch, len) == arch.offset < len /\ arch.offset + arch.size <= len

\* C8: a fat container whose table is readable, that holds an x86-64 or a
\* 32-bit x86 slice, and whose x86 slices all lie within the buffer, makes
\* either resolver recurse into a slice and not fail with MachFatNoX86.
C8_X86SliceSelected ==
    (/\ Resolved
     /\ binary.kind = "Fat"
     /\ \A i \in DOMAIN binary.arches : binary.arches[i].kind = "Arch"
     /\ \E i \in DOMAIN binary.arches : binary.arches[i].cputype \in X86Types
     /\ \A i \in DOMAIN binary.arches :
           binary.arches[i].cputype \in X86Types
           => WithinBuffer(binary.arches[i], binary.len))
    => /\ loaded.slices # <<>>
       /\ loaded.resolution # Err(<<"MachFatNoX86">>)

\* C9: a fat container whose slices are all of non-x86 CPU types makes either
\* resolver return MachFatNoX86 without recursing into a slice.
C9_NoX86Slice ==
    (/\ Resolved
     /\ binary.kind = "Fat"
     /\ \A i \in DOMAIN binary.arches :
           /\ binary.arches[i].kind = "Arch"
           /\ binary.arches[i].cputype \notin X86Types)
    => /\ loaded.resolution = Err(<<"MachFatNoX86">>)
       /\ loaded.slices = <<>>
       /\ loaded.op = "execute" => result = Err(<<"MachFatNoX86">>)

\* a container of two non-x86 slices, the first of them inside the buffer and
\* holding a well-formed ELF, has been resolved
C9_Witness ==
    /\ Resolved
    /\ binary.kind = "Fat"
    /\ Len(binary.arches) = 2
    /\ \A i \in DOMAIN binary.arches :
          /\ binary.arches[i].kind = "Arch"
          /\ binary.arches[i].cputype \notin X86Types
    /\ WithinBuffer(binary.arches[1], binary.len)
    /\ binary.arches[1].inner = ThinElf
    /\ loaded.resolution = Err(<<"MachFatNoX86">>)

\* C10: every key of a returned export map is a non-empty name and every
\* value is non-zero.
C10_ExportMapInvariant ==
    (/\ Resolved
     /\ loaded.op = "exports"
     /\ loaded.resolution.kind = "Ok")
    => \A name \in DOMAIN loaded.resolution.exports :
          /\ name # ""
          /\ loaded.resolution.exports[name] # Zero64

\* the entries of an ELF symbol table that have a non-zero value and a
\* name that resolves to a non-empty string
Qualifying(syms) ==
    {i \in DOMAIN syms :
        /\ syms[i].st_value # Zero64
        /\ syms[i].name # <<>>
        /\ syms[i].name[1] # ""}

\* C11: ELF export resolution returns Ok with exactly the map over the
\* qualifying symbol-table entries, the later entry winning for a repeated
\* name; with no qualifying entry the map is empty and the result is still Ok.
C11_ElfExports ==
    (/\ Resolved
     /\ loaded.op = "exports"
     /\ binary.kind = "Elf")
    => /\ loaded.resolution.kind = "Ok"
       /\ loaded.slices = <<>>
       /\ DOMAIN loaded.resolution.exports =
             {binary.syms[i].name[1] : i \in Qualifying(binary.syms)}
       /\ \A i \in Qualifying(binary.syms) :
             (\A j \in Qualifying(binary.syms) :
                 binary.syms[j].name = binary.syms[i].name => j <= i)
             => loaded.resolution.exports[binary.syms[i].name[1]]
                   = binary.syms[i].st_value

\* a table that names one symbol twice with different non-zero values, and
\* holds nothing else, has been resolved
C11_Witness ==
    /\ Resolved
    /\ loaded.op = "exports"
    /\ binary.kind = "Elf"
    /\ Len(binary.syms) = 2
    /\ Qualifying(binary.syms) = {1, 2}
    /\ binary.syms[1].name = binary.syms[2].name
    /\ binary.syms[1].st_value # binary.syms[2].st_value
    /\ loaded.resolution.kind = "Ok"

\* the image starts with mov rdi, v and mov rax, 0x3c, in either order,
\* followed by syscall
IsExitProgram(v) ==
    /\ Len(image) >= 22
    /\ image[21] = SyscallCell
    /\ \/ image[1] = MovRdi(v) /\ image[11] = MovImm("RAX", 60)
       \/ image[1] = MovImm("RAX", 60) /\ image[11] = MovRdi(v)

\* C13: a program that loads v into rdi and 0x3c into rax by move-immediate
\* and then executes syscall is still running before its third instruction
\* and has returned Ok(Execution{exit_code: v, stdout: "", stderr: ""}) after it.
C13_EndToEndExit ==
    \A v \in ExitCodes \cup {FromNat(2)} :
        IsExitProgram(v)
        => /\ trace.decoded < 3 => result = Running
           /\ trace.decoded >= 3 =>
                 /\ trace.decoded = 3
                 /\ result = Ok([exit_code |-> v, stdout |-> <<>>, stderr |-> <<>>])

\* the program with v = 2^64 - 1 has returned
C13_Witness ==
    /\ IsExitProgram(Max64)
    /\ decoder.ip = <<22, 64, 0, 0>>
    /\ result.kind = "Ok"
    /\ result.execution.exit_code = Max64

\* the stack of a fresh CPU after push imm8 and a pop: the byte is in the
\* push slot, eight below the top, and everything else is zero
PushedStack(imm) == [a \in 0..(STACK_SIZE - 1) |-> IF a = STACK_SIZE - 8 THEN imm ELSE 0]

\* the rdx bytes at offsets rsi, rsi + 1, ... modulo the capacity
TextAt(stk, rsi, rdx) == [i \in 1..rdx |-> stk[(rsi + i - 1) % STACK_SIZE]]

\* C14 as stated: every push-pop-write-exit program ends with exit code 0,
\* empty stderr and the addressed stack bytes on stdout.
C14_AsStated ==
    \A p \in WriteParams :
        (image = Layout(WriteProgram(p), 1) /\ result # Running)
        => result = Ok([exit_code |-> Zero64,
                        stdout |-> TextAt(PushedStack(p.imm), p.rsi, p.rdx),
                        stderr |-> <<>>])

\* C14: a push-pop-write-exit program runs to its last instruction; when the
\* addressed stack bytes are valid UTF-8 it ends with exit code 0, empty
\* stderr and those bytes on stdout, otherwise it ends with FromUtf8Error.
C14_EndToEndWrite ==
    \A p \in WriteParams :
        image = Layout(WriteProgram(p), 1)
        => LET text == TextAt(PushedStack(p.imm), p.rsi, p.rdx)
           IN  /\ trace.decoded = Len(WriteProgram(p)) => result # Running
               /\ result # Running =>
                     IF IsUtf8(text)
                     THEN /\ result = Ok([exit_code |-> Zero64, stdout |-> text,
                                          stderr |-> <<>>])
                          /\ trace.executed = Len(WriteProgram(p))
                     ELSE result = Err(<<"FromUtf8Error">>)

\* a program that pushed 'A' and wrote the eight bytes of the push slot
\* has exited
C14_Witness ==
    /\ image = Layout(WriteProgram([imm |-> 65, pop |-> "RBX",
                                    rsi |-> STACK_SIZE - 8, rdx |-> 8]), 1)
    /\ result.kind = "Ok"
    /\ stdout = <<65, 0, 0, 0, 0, 0, 0, 0>>
    /\ registers["rbx"] = FromNat(65)

-----------------------------------------------------------------------------
(* Two runs of execute_from_x86_decoder on the same image in one process:   *)
(* the first run is recorded step by step in hist, then the loop is entered  *)
(* again from the same decoder and compared with the record                  *)

\* instructions in a program that is run twice
MaxTwinLen == 1

TwinPrograms ==
    UNION {[1..n -> Alphabet] : n \in 1..MaxTwinLen}
    \cup {WriteThenExit(fd) : fd \in 1..3}

\* the locals of a run that keeps the Cpu the previous run left behind
run_start_reusing(prior) ==
    [cpu |-> prior, exit_code |-> <<>>, stdout |-> <<>>, stderr |-> <<>>]

\* the locals execute_from_x86_decoder sets up before its loop, whatever an
\* earlier run left behind: no exit code, empty outputs, Cpu::new()
run_start(prior) ==
    [cpu |-> Cpu_new, exit_code |-> <<>>, stdout |-> <<>>, stderr |-> <<>>]

\* what a run has reached: CPU, decoder cursor, accumulators and outcome
Snapshot ==
    [registers |-> registers, stack |-> stack, decoder |-> decoder,
     exit_code |-> exit_code, stdout |-> stdout, stderr |-> stderr,
     result |-> result]

NoInstruction == Instr("None", "None", "None", "None", Zero64, Zero64, 0)

InitTwin ==
    /\ \E prog \in TwinPrograms : image = Layout(prog, 1)
    /\ \E base \in Bases : decoder = [ip |-> base, position |-> 0]
    /\ relative_instruction_pointer = WrappingSub(decoder.ip, FromNat(decoder.position))
    /\ stack = run_start(Cpu_new).cpu.stack
    /\ registers = run_start(Cpu_new).cpu.registers
    /\ exit_code = <<>>
    /\ stdout = <<>>
    /\ stderr = <<>>
    /\ result = Running
    /\ trace = [decoded |-> 0, executed |-> 0, returns |-> 0,
                instruction |-> NoInstruction]
    /\ hist = [n |-> 1,
               calls |-> <<[registers |-> registers, stack |-> stack,
                            decoder |-> decoder, exit_code |-> exit_code,
                            stdout |-> stdout, stderr |-> stderr,
                            result |-> result]>>]
    /\ LoaderIdle
    /\ ClientIdle

\* one pass through the loop body; the first run records where it got to
TwinIterate ==
    /\ result = Running
    /\ trace.decoded < MaxSteps
    /\ \E r \in {loop_iteration(ThisCpu, decoder, image, relative_instruction_pointer,
                                exit_code, stdout, stderr)} :
           /\ stack' = r.cpu.stack
           /\ registers' = r.cpu.registers
           /\ decoder' = r.decoder
           /\ exit_code' = r.exit_code
           /\ stdout' = r.stdout
           /\ stderr' = r.stderr
           /\ result' = r.result
           /\ trace' = [decoded |-> trace.decoded + 1,
                        executed |-> trace.executed + (IF r.executed THEN 1 ELSE 0),
                        returns |-> trace.returns + (IF r.result # Running THEN 1 ELSE 0),
                        instruction |-> r.instruction]
           /\ hist' = IF hist.n = 1
                      THEN [hist EXCEPT !.calls =
                                Append(@, [registers |-> r.cpu.registers,
                                           stack |-> r.cpu.stack,
                                           decoder |-> r.decoder,
                                           exit_code |-> r.exit_code,
                                           stdout |-> r.stdout,
                                           stderr |-> r.stderr,
                                           result |-> r.result])]
                      ELSE hist
    /\ UNCHANGED <<image, relative_instruction_pointer, loaderVars, clientVars>>

\* the second run: the same image under a decoder at the same entry
RunAgain ==
    /\ hist.n = 1
    /\ result # Running \/ trace.decoded = MaxSteps
    /\ \E start \in {run_start(ThisCpu)} :
           /\ stack' = start.cpu.stack
           /\ registers' = start.cpu.registers
           /\ exit_code' = start.exit_code
           /\ stdout' = start.stdout
           /\ stderr' = start.stderr
    /\ decoder' = hist.calls[1].decoder
    /\ result' = Running
    /\ trace' = [decoded |-> 0, executed |-> 0, returns |-> 0,
                 instruction |-> NoInstruction]
    /\ hist' = [hist EXCEPT !.n = 2]
    /\ UNCHANGED <<image, relative_instruction_pointer, loaderVars, clientVars>>

TwinNext == TwinIterate \/ RunAgain

SpecTwin == InitTwin /\ [][TwinNext]_vars

-----------------------------------------------------------------------------
(* The syscall layer on its own: handle_syscall called on a CPU whose        *)
(* argument registers and stack a program has set, then called again,         *)
(* possibly after the program has loaded another descriptor into rdi          *)

\* syscalls made on one CPU
MaxSysCalls == 2

\* a stack holding "Hi!" across the wrap and zeros elsewhere, and one with a
\* lone 0xC3 before it
SysStacks ==
    {[a \in 0..(STACK_SIZE - 1) |->
        CASE a = STACK_SIZE - 2 -> 72
          [] a = STACK_SIZE - 1 -> 105
          [] a = 0 -> 33
          [] a = STACK_SIZE - 3 -> lead
          [] OTHER -> 0] : lead \in {0, 195}}

\* rax, rdi, rsi, rdx and rsp as a program can have set them
SysRegisters ==
    {[Cpu_new.registers EXCEPT
        !["rax"] = FromNat(rax), !["rdi"] = FromNat(rdi), !["rsi"] = rsi,
        !["rdx"] = rdx, !["rsp"] = StackPointer_new(FromNat(rsp), STACK_SIZE)] :
        rax \in {1, 60, 7}, rdi \in {1, 2, 3},
        rsi \in {FromNat(STACK_SIZE - 3), FromNat(2 * STACK_SIZE - 2)},
        rdx \in {Zero64, FromNat(3), FromNat(STACK_SIZE), FromNat(STACK_SIZE + 1),
                 <<0, 0, 1, 0>>},
        rsp \in {0, STACK_SIZE - 8}}

InitSys ==
    /\ stack \in SysStacks
    /\ registers \in SysRegisters
    /\ hist = [n |-> 0, calls |-> <<>>]
    /\ LoopIdle
    /\ LoaderIdle
    /\ ClientIdle

\* handle_syscall(&mut cpu, &mut exit_code, &mut stdout, &mut stderr); hist
\* keeps what the call was entered with and what it returned
SysCall ==
    /\ hist.n < MaxSysCalls
    /\ \E r \in {handle_syscall(ThisCpu, exit_code, stdout, stderr)} :
           /\ stack' = r.cpu.stack
           /\ registers' = r.cpu.registers
           /\ exit_code' = r.exit_code
           /\ stdout' = r.stdout
           /\ stderr' = r.stderr
           /\ hist' = [n |-> hist.n + 1,
                       calls |-> <<[cpu |-> ThisCpu, exit_code |-> exit_code,
                                    stdout |-> stdout, stderr |-> stderr,
                                    err |-> r.err, returned |-> TRUE]>>]
    /\ UNCHANGED <<decoder, image, relative_instruction_pointer, result, trace,
                   loaderVars, clientVars>>

\* mov rdi, fd between two syscalls
LoadRdi(fd) ==
    /\ hist.n >= 1
    /\ hist.n < MaxSysCalls
    /\ hist.calls[1].returned
    /\ hist.calls[1].err[1] = "Ok"
    /\ \E r \in {execute_instruction(ThisCpu, MovRdiInstr(fd))} :
           /\ stack' = r.cpu.stack
           /\ registers' = r.cpu.registers
    /\ hist' = [hist EXCEPT !.calls[1].returned = FALSE]
    /\ UNCHANGED <<loopVars, loaderVars, clientVars>>

SysNext == SysCall \/ \E fd \in 1..3 : LoadRdi(fd)

SpecSys == InitSys /\ [][SysNext]_vars

\* the latest handle_syscall call has just returned
Returned == hist.n >= 1 /\ hist.calls[1].returned

\* what that call was entered with
Entry == hist.calls[1]

IsPrefix(a, b) == Len(a) <= Len(b) /\ SubSeq(b, 1, Len(a)) = a

\* the call observed was a write syscall
WriteCall == Returned /\ Entry.cpu.registers["rax"] = SYS_write

\* the bytes a write call addresses: rdx bytes from offset rsi, modulo the
\* capacity (rsi below 2^16 in every input, rdx within the capacity)
Addressed ==
    TextAt(Entry.cpu.stack, Entry.cpu.registers["rsi"][1] % STACK_SIZE,
           Entry.cpu.registers["rdx"][1])

\* the call passed the count test and the UTF-8 decoding
ReachedDescriptor ==
    /\ ~GtNat(Entry.cpu.registers["rdx"], STACK_SIZE)
    /\ IsUtf8(Addressed)

\* C15 as stated: a write call with a descriptor other than 1 and 2 always
\* fails with UnimplementedFileDescriptor(rdi).
C15_AsStated ==
    (WriteCall /\ Entry.cpu.registers["rdi"] \notin {FromNat(1), FromNat(2)})
        => Entry.err = <<"UnimplementedFileDescriptor", Entry.cpu.registers["rdi"]>>

\* C15: a successful write with rdi = 1 appends the addressed text to stdout
\* and leaves stderr alone, with rdi = 2 it appends to stderr and leaves
\* stdout alone; a write with any other descriptor fails and changes neither,
\* and the failure is UnimplementedFileDescriptor(rdi) when the count test and
\* the UTF-8 decoding passed; a failed call changes neither accumulator, and
\* the accumulators at an earlier call are prefixes of every later value.
C15_WriteRouting ==
    /\ WriteCall =>
        LET fd == Entry.cpu.registers["rdi"]
        IN  /\ (Entry.err[1] = "Ok" /\ fd = FromNat(1)) =>
                    /\ stdout = Entry.stdout \o Addressed
                    /\ stderr = Entry.stderr
            /\ (Entry.err[1] = "Ok" /\ fd = FromNat(2)) =>
                    /\ stderr = Entry.stderr \o Addressed
                    /\ stdout = Entry.stdout
            /\ fd \notin {FromNat(1), FromNat(2)} =>
                    /\ Entry.err[1] # "Ok"
                    /\ ReachedDescriptor =>
                            Entry.err = <<"UnimplementedFileDescriptor", fd>>
            /\ Entry.err[1] # "Ok" =>
                    (stdout = Entry.stdout /\ stderr = Entry.stderr)
    /\ hist.n >= 1 =>
            (IsPrefix(Entry.stdout, stdout) /\ IsPrefix(Entry.stderr, stderr))

\* a second write, to stderr, after a first one that left text on stdout
C15_Witness ==
    /\ WriteCall
    /\ hist.n = 2
    /\ Entry.err[1] = "Ok"
    /\ Entry.cpu.registers["rdi"] = FromNat(2)
    /\ Entry.stdout # <<>>
    /\ stdout = Entry.stdout
    /\ stderr = Entry.stderr \o Addressed
    /\ Addressed # <<>>

\* what a successful write call appended to the accumulator it chose
Appended ==
    IF Entry.cpu.registers["rdi"] = FromNat(1)
    THEN SubSeq(stdout, Len(Entry.stdout) + 1, Len(stdout))
    ELSE SubSeq(stderr, Len(Entry.stderr) + 1, Len(stderr))

\* C16: a write call, successful or failed, returns with rsp, every other
\* register and every stack byte as they were at entry, and the i-th byte a
\* successful call read is stack[(rsi + i) mod capacity].
C16_WriteFrame ==
    WriteCall =>
        /\ registers = Entry.cpu.registers
        /\ stack = Entry.cpu.stack
        /\ Entry.err[1] = "Ok" =>
                /\ Len(Appended) = Entry.cpu.registers["rdx"][1]
                /\ \A i \in 0..(Len(Appended) - 1) :
                        Appended[i + 1] =
                            Entry.cpu.stack[(Entry.cpu.registers["rsi"][1] + i) % STACK_SIZE]

\* a successful write whose bytes run over the end of the buffer, with rsp
\* elsewhere
C16_Witness ==
    /\ WriteCall
    /\ Entry.err[1] = "Ok"
    /\ Entry.cpu.registers["rsi"] = FromNat(2 * STACK_SIZE - 2)
    /\ Entry.cpu.registers["rdx"] = FromNat(3)
    /\ Appended = <<72, 105, 33>>
    /\ SpValue(registers["rsp"]) = STACK_SIZE - 8
    /\ registers = Entry.cpu.registers
    /\ stack = Entry.cpu.stack

\* C17: a write call with rdx above the stack capacity fails with
\* StackOverflowRead for every descriptor and every buffer content (also one
\* that is not valid UTF-8) and changes neither accumulator; a write call with
\* rdx equal to the capacity or below never fails with StackOverflowRead.
C17_CountAboveCapacity ==
    WriteCall =>
        IF GtNat(Entry.cpu.registers["rdx"], STACK_SIZE)
        THEN /\ Entry.err = <<"Cpu", <<"StackOverflowRead">>>>
             /\ stdout = Entry.stdout
             /\ stderr = Entry.stderr
        ELSE Entry.err # <<"Cpu", <<"StackOverflowRead">>>>

\* a count of capacity + 1 on a descriptor that is not implemented and a
\* buffer that is not valid UTF-8
C17_Witness ==
    /\ WriteCall
    /\ Entry.cpu.registers["rdx"] = FromNat(STACK_SIZE + 1)
    /\ Entry.cpu.registers["rdi"] = FromNat(3)
    /\ Entry.cpu.stack[STACK_SIZE - 3] = 195
    /\ Entry.err = <<"Cpu", <<"StackOverflowRead">>>>
    /\ stdout = <<>>
    /\ stderr = <<>>

\* this step executes a syscall entered with rax = 0x3c
ExitStep ==
    /\ trace'.executed = trace.executed + 1
    /\ trace'.instruction.code = "Syscall"
    /\ registers["rax"] = FromNat(60)

\* C18: the step that executes an exit syscall returns Ok with the exit code
\* equal to rdi at that syscall and with stdout and stderr as they stood, it
\* moves the decoder by the decoding of the syscall only, and once a run has
\* returned nothing more is decoded or executed.
C18_ExitStops ==
    [][/\ ExitStep =>
            /\ result' = Ok([exit_code |-> registers["rdi"], stdout |-> stdout,
                             stderr |-> stderr])
            /\ exit_code' = <<registers["rdi"]>>
            /\ stdout' = stdout
            /\ stderr' = stderr
            /\ decoder'.position = decoder.position + trace'.instruction.len
            /\ decoder'.ip = WrappingAdd(decoder.ip, FromNat(trace'.instruction.len))
            /\ trace'.returns = 1
       /\ result # Running => (trace' = trace /\ decoder' = decoder)]_vars

\* exit(2) has returned with two instructions left behind it in the image
C18_Witness ==
    /\ image = Layout(ExitThenMore, 1)
    /\ result = Ok([exit_code |-> FromNat(2), stdout |-> <<>>, stderr |-> <<>>])
    /\ trace.decoded = 3
    /\ decoder.position = 22
    /\ decoder.position < Len(image)

\* the opcodes execute_instruction matches on
Implemented ==
    {"Mov_r64_imm64", "Mov_rm64_r64", "Push_r64", "Pushq_imm8", "Pop_r64",
     "Jmp_rel8_64", "Xor_rm32_r32"}

\* this step hands execute_instruction an opcode outside the seven, or a
\* register move or xor whose destination operand is not a register
UnimplementedStep ==
    /\ trace'.executed = trace.executed + 1
    /\ trace'.instruction.code # "Syscall"
    /\ \/ trace'.instruction.code \notin Implemented
       \/ /\ trace'.instruction.code \in {"Mov_rm64_r64", "Xor_rm32_r32"}
          /\ trace'.instruction.op0_kind # "Register"

\* C19: the step that executes such an instruction ends the run with
\* Error::Cpu(UnimplementedInstruction(instruction)) carrying the instruction
\* decoded, with the stack and every register as execute_instruction received
\* them (rip holding the address after the instruction, which the loop stored
\* before the call), and with no exit code and no output added.
C19_UnimplementedInstruction ==
    [][UnimplementedStep =>
            /\ result' = Err(<<"Cpu", <<"UnimplementedInstruction", trace'.instruction>>>>)
            /\ trace'.returns = 1
            /\ stack' = stack
            /\ registers' = [registers EXCEPT !["rip"] = decoder'.ip]
            /\ exit_code' = exit_code
            /\ stdout' = stdout
            /\ stderr' = stderr]_vars

\* a xor with a memory destination ended a run that had pushed a byte and
\* loaded rax
C19_Witness ==
    /\ trace.instruction.code = "Xor_rm32_r32"
    /\ trace.instruction.op0_kind = "Memory"
    /\ trace.executed = 3
    /\ result = Err(<<"Cpu", <<"UnimplementedInstruction", trace.instruction>>>>)
    /\ stack[STACK_SIZE - 8] = 65
    /\ registers["rax"] = FromNat(1)

-----------------------------------------------------------------------------
(* Every way of obtaining a StackPointer: StackPointer::new, the derived    *)
(* Default behind Registers::new(), set_wrapping, and the four operators    *)

\* operations applied to one StackPointer
MaxObtainCalls == 2

\* the StackPointer operands of + and -
SpOperands ==
    {StackPointer_new(FromNat(3), 10), StackPointer_new(FromNat(STACK_SIZE - 1), STACK_SIZE),
     StackPointer_default}

\* Registers::new(), Cpu::new().registers, or registers holding a
\* StackPointer::new(o, c)
InitObtain ==
    /\ \/ registers = Registers_default
       \/ \E c \in Capacities : \E o \in Offsets :
             registers = [Cpu_new.registers EXCEPT
                              !["rsp"] = StackPointer_new(FromNat(o), c)]
    /\ stack = Cpu_new.stack
    /\ hist = [n |-> 0, calls |-> <<>>]
    /\ LoopIdle
    /\ LoaderIdle
    /\ ClientIdle

\* one operation on registers.rsp; each of them takes a remainder by
\* self.stack_size, which panics when that is 0 and leaves no value behind
Obtain(op, arg, value) ==
    /\ hist.n < MaxObtainCalls
    /\ IF registers["rsp"].stack_size = 0
       THEN /\ hist' = Record(Call(op, arg, <<"Panic">>, <<>>))
            /\ UNCHANGED registers
       ELSE /\ hist' = Record(Call(op, arg, <<"Ok">>, <<>>))
            /\ registers' = [registers EXCEPT !["rsp"] = value]
    /\ UNCHANGED <<stack, loopVars, loaderVars, clientVars>>

\* rsp.set_wrapping(value)
SetWrapping(value) ==
    Obtain("set_wrapping", value, StackPointer_set_wrapping(registers["rsp"], value))

\* rsp += amount
AddU64(amount) ==
    Obtain("add_assign", amount, StackPointer_add_u64(registers["rsp"], amount))

\* rsp -= amount
SubU64(amount) ==
    Obtain("sub_assign", amount, StackPointer_sub_u64(registers["rsp"], amount))

\* rsp += x
AddSp(x) ==
    Obtain("add_assign_sp", x, StackPointer_add_sp(registers["rsp"], x))

\* rsp -= x
SubSp(x) ==
    Obtain("sub_assign_sp", x, StackPointer_sub_sp(registers["rsp"], x))

ObtainNext ==
    \/ \E value \in Amounts : SetWrapping(value)
    \/ \E amount \in Amounts : AddU64(amount)
    \/ \E amount \in Amounts : SubU64(amount)
    \/ \E x \in SpOperands : AddSp(x)
    \/ \E x \in SpOperands : SubSp(x)

SpecObtain == InitObtain /\ [][ObtainNext]_vars

\* C20: every StackPointer obtained -- from StackPointer::new, from the
\* derived Default behind Registers::new(), or from set_wrapping, + or - on
\* one of those -- has 0 <= offset < capacity.
C20_TypeInvariant ==
    /\ SpValue(registers["rsp"]) >= 0
    /\ SpValue(registers["rsp"]) < registers["rsp"].stack_size

-----------------------------------------------------------------------------
(* Register aliasing                                                       *)

\* a Cpu whose registers earlier instructions have loaded: every byte of rax
\* and rbx is in use and rsp is inside the buffer; or a fresh Cpu
InitAlias ==
    /\ \/ registers = [Cpu_new.registers EXCEPT
                            !["rax"] = <<4660, 22136, 39612, 57072>>,
                            !["rbx"] = Max64,
                            !["rsp"] = StackPointer_new(FromNat(STACK_SIZE - 8), STACK_SIZE)]
       \/ registers = Cpu_new.registers
    /\ stack = Cpu_new.stack
    /\ hist = [n |-> 0, calls |-> <<>>]
    /\ LoopIdle
    /\ LoaderIdle
    /\ ClientIdle

SpecAlias == InitAlias /\ [][RegNext]_vars

\* the general-purpose register names among the names set
GpNames == {r \in RegisterNames : RegisterSlot(r) \in GpSlots \cup {"rsp"}}

\* this step is a successful set_register through a general-purpose name
GpSetStep ==
    /\ hist'.n = hist.n + 1
    /\ hist'.calls[1].op = "set_register"
    /\ hist'.calls[1].err = <<"Ok">>
    /\ hist'.calls[1].arg[1] \in GpNames

\* C21: after set_register through a general-purpose name with value v,
\* get_register_u64 through every name of the same field returns one value,
\* the whole of v (v mod STACK_SIZE for the rsp names) whatever the width of
\* the name written, and no other field of Registers and no stack byte has
\* changed.
C21_Aliasing ==
    [][GpSetStep =>
            LET register == hist'.calls[1].arg[1]
                v == hist'.calls[1].arg[2]
                slot == RegisterSlot(register)
                stored == IF slot = "rsp" THEN FromNat(Mod64(v, STACK_SIZE)) ELSE v
            IN  /\ \A alias \in GpNames :
                        RegisterSlot(alias) = slot =>
                            get_register_u64(registers', alias)
                                = [err |-> <<"Ok">>, val |-> stored]
                /\ \A other \in Slots \ {slot} : registers'[other] = registers[other]
                /\ stack' = stack]_vars

\* 1 was written through AL into a Cpu whose rax had every byte in use, and
\* is read back as 1 through RAX
C21_Witness ==
    /\ hist.n > 0
    /\ Last.op = "set_register"
    /\ Last.err = <<"Ok">>
    /\ Last.arg = <<"AL", FromNat(1)>>
    /\ registers["rbx"] = Max64
    /\ get_register_u64(registers, "RAX").val = FromNat(1)
    /\ get_register_u64(registers, "AH").val = FromNat(1)

-----------------------------------------------------------------------------
(* The base recorded by the loop against the load base of the image         *)

\* the object whose branch built the decoder: the buffer's, or that of the
\* fat slice recursed into
Executed ==
    IF binary.kind = "Fat" /\ loaded.slices # <<>>
    THEN loaded.slices[1].arch.inner
    ELSE binary

\* the loop was entered on a decoder the loader built
LoopEntered ==
    /\ Resolved
    /\ loaded.op = "execute"
    /\ loaded.resolution.kind = "Decoder"
    /\ result.kind # "Panic"

\* C22: when the loop is entered on an ELF or PE image, the base it recorded
\* (decoder.ip() - decoder.position()) is the load base the loader resolved:
\* the lowest PT_LOAD p_vaddr for ELF, image_base for PE.
C22_BaseIsLoadBase ==
    LoopEntered =>
        /\ Executed.kind = "Elf" =>
                relative_instruction_pointer = load_base(Executed.program_headers)[1]
        /\ Executed.kind = "PE" =>
                relative_instruction_pointer = Executed.optional_header[1].image_base

-----------------------------------------------------------------------------
(* The bounds of a fat slice                                                *)

\* the table entry the two lookups yield, <<>> when they yield none
Selected ==
    LET found == Result_or(find_cputype(binary.arches, "CPU_TYPE_X86"),
                           find_cputype(binary.arches, "CPU_TYPE_X86_64"))
    IN  IF found.kind = "Ok" THEN found.arch ELSE <<>>

\* a resolver gave MachFatNoX86 without recursing
Rejected(r) == r.resolution = Err(<<"MachFatNoX86">>) /\ r.slices = <<>>

\* C23: when the selected slice of a fat container starts at or after the end
\* of the buffer, or ends after it, the resolver that ran returned
\* MachFatNoX86 without recursing; and the other resolver rejects exactly when
\* this one did and recurses into the same byte range.
C23_FatBounds ==
    (Resolved /\ binary.kind = "Fat") =>
        LET other == IF loaded.op = "execute"
                     THEN get_exports_from_binary_slice(binary)
                     ELSE execute_from_binary_slice(binary)
        IN  /\ (Selected # <<>> /\ ~WithinBuffer(Selected[1], binary.len))
                    => Rejected(loaded)
            /\ Rejected(loaded) <=> Rejected(other)
            /\ loaded.slices = other.slices

\* the export resolver rejected an x86 slice that begins inside the buffer
\* and runs over its end
C23_Witness ==
    /\ Resolved
    /\ loaded.op = "exports"
    /\ binary.kind = "Fat"
    /\ Selected # <<>>
    /\ Selected[1].offset < binary.len
    /\ Selected[1].offset + Selected[1].size > binary.len
    /\ Rejected(loaded)

-----------------------------------------------------------------------------
(* StackPointer addition over the whole u64 range: here both fields of a    *)
(* StackPointer are u64 values, so that capacities up to 2^64 - 1 and the   *)
(* overflow of u64 + u64 are represented                                    *)

\* v % m on u64, for a modulus below 2^15 or of 2^63 and above (where the
\* quotient is 0 or 1)
Rem64(v, m) ==
    IF IsSmall(m) THEN FromNat(Mod64(v, m[1]))
    ELSE IF Lt64(v, m) THEN v ELSE WrappingSub(v, m)

\* StackPointer::new
StackPointer_new_wide(value, stack_size) ==
    [pointer |-> Rem64(value, stack_size), stack_size |-> stack_size]

\* impl Add<u64> for StackPointer: the outcomes of
\* StackPointer::new(self.pointer + (x % self.stack_size), self.stack_size).
\* When the u64 sum overflows, a build with overflow checks panics and one
\* without them continues with the wrapped sum
StackPointer_add_u64_wide(self, x) ==
    LET sum == WrappingAdd(self.pointer, Rem64(x, self.stack_size))
        value == [err |-> <<"Ok">>, sp |-> StackPointer_new_wide(sum, self.stack_size)]
    IN  IF Lt64(sum, self.pointer)
        THEN {[err |-> <<"Panic">>, sp |-> self], value}
        ELSE {value}

\* additions applied to one StackPointer
MaxAdds == 1

\* 1, 10, STACK_SIZE, 2^63, 2^63 + 1 and 2^64 - 1
WideCapacities ==
    {FromNat(1), FromNat(10), FromNat(STACK_SIZE), <<0, 0, 0, 32768>>,
     <<1, 0, 0, 32768>>, Max64}

WideValues ==
    {Zero64, FromNat(1), FromNat(9), FromNat(STACK_SIZE - 1), FromNat(STACK_SIZE + 5),
     <<0, 0, 0, 32768>>, <<65535, 65535, 65535, 32767>>,
     <<65534, 65535, 65535, 65535>>, Max64}

\* registers.rsp = StackPointer::new(value, stack_size)
InitAdd ==
    /\ \E stack_size \in WideCapacities : \E value \in WideValues :
          registers = [Cpu_new.registers EXCEPT
                            !["rsp"] = StackPointer_new_wide(value, stack_size)]
    /\ stack = Cpu_new.stack
    /\ hist = [n |-> 0, calls |-> <<>>]
    /\ LoopIdle
    /\ LoaderIdle
    /\ ClientIdle

\* rsp += amount
AddAssign(amount) ==
    /\ hist.n < MaxAdds
    /\ \E r \in StackPointer_add_u64_wide(registers["rsp"], amount) :
          /\ registers' = [registers EXCEPT !["rsp"] = r.sp]
          /\ hist' = Record(Call("add_assign", amount, r.err, <<>>))
    /\ UNCHANGED <<stack, loopVars, loaderVars, clientVars>>

AddNext == \E amount \in WideValues : AddAssign(amount)

SpecAdd == InitAdd /\ [][AddNext]_vars

\* (o + a) mod c in exact arithmetic, for o < c: o + (a mod c) is below 2c,
\* so it is reduced by at most one subtraction of c, carried out modulo 2^64
SumMod(o, a, c) ==
    LET sum == WrappingAdd(o, Rem64(a, c))
    IN  IF Lt64(sum, o) \/ ~Lt64(sum, c) THEN WrappingSub(sum, c) ELSE sum

\* C24: StackPointer + a returns, without overflowing, a StackPointer of the
\* same capacity c whose offset is (o + a) mod c, for every capacity c > 0,
\* offset o < c and u64 amount a.
C24_Addition ==
    (hist.n > 0 /\ Last.op = "add_assign") =>
        /\ Last.err = <<"Ok">>
        /\ registers["rsp"].stack_size = Last.rsp_before.stack_size
        /\ registers["rsp"].pointer =
                SumMod(Last.rsp_before.pointer, Last.arg, Last.rsp_before.stack_size)

-----------------------------------------------------------------------------
(* Layout and frame of a push                                               *)

\* this step is a push_stack_value that returned Ok
PushedStep ==
    /\ hist'.n = hist.n + 1
    /\ hist'.calls[1].op = "push_stack_value"
    /\ hist'.calls[1].err = <<"Ok">>

\* n rounded up to a multiple of 8
RoundUp8(n) == 8 * ((n + 7) \div 8)

\* C25: a successful push_stack_value(b) of n bytes moves rsp to
\* (rsp - roundup8(n)) mod STACK_SIZE, leaves b[i] at offset (new rsp + i) mod
\* STACK_SIZE for 0 <= i < n, and changes no other stack byte (the padding
\* above the value included) and no register other than rsp.
C25_PushLayout ==
    [][PushedStep =>
            LET b == hist'.calls[1].arg
                n == Len(b)
                new == (SpValue(registers["rsp"]) + 2 * STACK_SIZE - RoundUp8(n))
                            % STACK_SIZE
            IN  /\ n <= STACK_SIZE
                /\ registers'["rsp"] = [pointer |-> new, stack_size |-> STACK_SIZE]
                /\ \A a \in 0..(STACK_SIZE - 1) :
                        LET i == (a + STACK_SIZE - new) % STACK_SIZE
                        IN  stack'[a] = IF i < n THEN b[i + 1] ELSE stack[a]
                /\ \A slot \in Slots \ {"rsp"} : registers'[slot] = registers[slot]]_vars

\* nine bytes were pushed over a stack that an earlier push had filled: the
\* first byte is at rsp and the seven padding bytes above the value still
\* hold the earlier contents
C25_Witness ==
    /\ hist.n = 2
    /\ Last.op = "push_stack_value"
    /\ Last.err = <<"Ok">>
    /\ Len(Last.arg) = 9
    /\ Prev.op = "push_stack_value"
    /\ Len(Prev.arg) = STACK_SIZE
    /\ SpValue(registers["rsp"]) = STACK_SIZE - 16
    /\ stack[STACK_SIZE - 16] = Last.arg[1]
    /\ stack[STACK_SIZE - 8] = Last.arg[9]
    /\ \A a \in (STACK_SIZE - 7)..(STACK_SIZE - 1) : stack[a] = Prev.arg[a + 1]

-----------------------------------------------------------------------------
(* push imm8 followed by pop r64, on a Cpu that earlier instructions used   *)

RECURSIVE execute_all(_, _)
\* the Cpu after executing the instructions one after the other
execute_all(cpu, instructions) ==
    IF instructions = <<>> THEN cpu
    ELSE execute_all(execute_instruction(cpu, Head(instructions)).cpu,
                     Tail(instructions))

\* mov rax, imm64; push rax; pop rbx
UsedBy(imm) ==
    <<Instr("Mov_r64_imm64", "Register", "RAX", "None", imm, Zero64, 10),
      Instr("Push_r64", "Register", "RAX", "None", Zero64, Zero64, 1),
      Instr("Pop_r64", "Register", "RBX", "None", Zero64, Zero64, 1)>>

\* a fresh Cpu, and Cpus on which a 64-bit value was pushed and popped
UsedCpus ==
    {Cpu_new} \cup {execute_all(Cpu_new, UsedBy(imm)) :
                        imm \in {FromNat(1), <<1, 2, 3, 4>>, Max64}}

PushPopInstructions ==
    {Instr("Pushq_imm8", "Immediate8to64", "None", "None", FromNat(b), Zero64, 2) :
        b \in {0, 65, 255}}
    \cup {Instr("Pop_r64", "Register", R, "None", Zero64, Zero64, 1) :
            R \in {"RDI", "RAX", "R15"}}

InitUsed ==
    /\ \E cpu \in UsedCpus : stack = cpu.stack /\ registers = cpu.registers
    /\ hist = [n |-> 0, calls |-> <<>>]
    /\ LoopIdle
    /\ LoaderIdle
    /\ ClientIdle

UsedNext == \E instruction \in PushPopInstructions : Execute(instruction)

SpecUsed == InitUsed /\ [][UsedNext]_vars

\* C26: after push imm8 with byte b and then pop into a 64-bit register R,
\* from any Cpu state earlier instructions can leave, R holds b zero-extended
\* and rsp is what it was before the push.
C26_PushImmPop ==
    (/\ hist.n >= 2
     /\ Last.op = "execute_instruction" /\ Last.arg.code = "Pop_r64"
     /\ Last.err = <<"Ok">>
     /\ Prev.op = "execute_instruction" /\ Prev.arg.code = "Pushq_imm8"
     /\ Prev.err = <<"Ok">>)
    => /\ get_register_u64(registers, Last.arg.op0_register).val
            = <<Prev.arg.immediate[1] % 256, 0, 0, 0>>
       /\ registers["rsp"] = Prev.rsp_before

-----------------------------------------------------------------------------
(* Decoder and Cpu stay consistent                                          *)

\* this step executes a jump and the loop goes on
JumpStep ==
    /\ trace'.executed = trace.executed + 1
    /\ trace'.instruction.code = "Jmp_rel8_64"
    /\ result' = Running

\* C27: whenever the loop is about to start an iteration, decoder.ip() -
\* decoder.position() is the base recorded at loop start; and a step that
\* executes a jump and goes on leaves the decoder's ip equal to rip (the
\* branch target) and its position equal to rip - base, having changed rip
\* only: no other register and no stack byte.
C27_DecoderConsistent ==
    /\ [](result = Running =>
            WrappingSub(decoder.ip, FromNat(decoder.position))
                = relative_instruction_pointer)
    /\ [][JumpStep =>
            /\ registers'["rip"] = trace'.instruction.near_branch64
            /\ decoder'.ip = registers'["rip"]
            /\ FromNat(decoder'.position)
                    = WrappingSub(registers'["rip"], relative_instruction_pointer)
            /\ \A slot \in Slots \ {"rip"} : registers'[slot] = registers[slot]
            /\ stack' = stack]_vars

\* a backward jump at 0x40000a was executed after a mov, and the decoder is
\* back on the jump
C27_Witness ==
    /\ trace.instruction.code = "Jmp_rel8_64"
    /\ trace.executed = 2
    /\ result = Running
    /\ relative_instruction_pointer = <<0, 64, 0, 0>>
    /\ decoder = [ip |-> <<10, 64, 0, 0>>, position |-> 10]
    /\ registers["rip"] = <<10, 64, 0, 0>>

-----------------------------------------------------------------------------
(* Jumps and the end of the image                                           *)

\* the instruction just executed is a jump
JumpExecuted ==
    /\ trace.instruction.code = "Jmp_rel8_64"
    /\ trace.executed = trace.decoded

\* base + image length
ImageEnd == WrappingAdd(relative_instruction_pointer, FromNat(Len(image)))

\* C28: a jump whose target is at or beyond base + image length has ended the
\* run with UnimplementedInstructionPointerOutsideProgramSpace, and after a
\* jump from which the loop goes on the decoder position is below the image
\* length.
C28_JumpInsideImage ==
    JumpExecuted =>
        /\ ~Lt64(trace.instruction.near_branch64, ImageEnd) =>
                result = Err(<<"UnimplementedInstructionPointerOutsideProgramSpace">>)
        /\ result = Running => decoder.position < Len(image)

-----------------------------------------------------------------------------
(* StackPointer - StackPointer against StackPointer + StackPointer          *)

\* the last operation was rsp -= q with q of rsp's capacity
SubtractedSp ==
    /\ hist.n > 0
    /\ Last.op = "sub_assign_sp"
    /\ Last.err = <<"Ok">>
    /\ Last.arg.stack_size = Last.rsp_before.stack_size

\* C29: for StackPointers p and q of the same capacity c, p - q has offset
\* (p.offset - q.offset) mod c, and (p + q) - q has the offset of p.
C29_SubInvertsAdd ==
    SubtractedSp =>
        /\ registers["rsp"].pointer =
              (Last.rsp_before.pointer + Last.rsp_before.stack_size - Last.arg.pointer)
                  % Last.rsp_before.stack_size
        /\ (hist.n > 1 /\ Prev.op = "add_assign_sp" /\ Prev.arg = Last.arg) =>
              registers["rsp"].pointer = Prev.rsp_before.pointer

-----------------------------------------------------------------------------
(* Termination                                                              *)

\* what every pass through the loop body does to the record of the run: the
\* instruction at the cursor is decoded and counted, executed or not, and the
\* loop is left or not
LoopTurn ==
    /\ result = Running
    /\ trace.decoded < MaxSteps
    /\ \E ran \in {0, 1} : \E left \in {0, 1} :
          trace' = [decoded |-> trace.decoded + 1,
                    executed |-> trace.executed + ran,
                    returns |-> trace.returns + left,
                    instruction |-> Decode(decoder, image).instruction]

\* every step of the loop is such a pass
EveryStepIsATurn == [][LoopTurn]_vars

\* the loop body runs again for as long as the loop has not been left: `loop`
\* has no other exit than its returns and its break
FairSpec == Init /\ [][Next]_vars /\ WF_trace(LoopTurn)

\* this step executes an instruction that is not a jump and the loop goes on
StraightStep ==
    /\ trace'.executed = trace.executed + 1
    /\ trace'.instruction.code # "Jmp_rel8_64"
    /\ result' = Running

\* this step executes a jump to the jump's own address
SelfJumpStep ==
    /\ trace'.executed = trace.executed + 1
    /\ trace'.instruction.code = "Jmp_rel8_64"
    /\ trace'.instruction.near_branch64 = decoder.ip

\* C30: a run that executes no jump ends, with an Execution or an error,
\* because every iteration that goes on without a jump leaves the decoder
\* position strictly higher and still within the image; a jump to itself
\* leaves the loop running with the decoder where it was, so it repeats
\* without end.
C30_Termination ==
    /\ <>(result # Running \/ trace.instruction.code = "Jmp_rel8_64")
    /\ [][StraightStep =>
            /\ decoder'.position > decoder.position
            /\ decoder'.position <= Len(image)]_vars
    /\ [][SelfJumpStep =>
            /\ result' = Running
            /\ decoder' = decoder
            /\ stack' = stack
            /\ exit_code' = exit_code]_vars

\* ten instructions without a jump were executed and the run ended with an
\* Execution
C30_Witness ==
    /\ \A i \in 1..Len(image) : image[i].code # "Jmp_rel8_64"
    /\ trace.executed = 10
    /\ trace.decoded = 10
    /\ result.kind = "Ok"

-----------------------------------------------------------------------------
(* main.rs: the challenge client. Byte strings are sequences of byte values *)

\* b"[?] Are you ready to receive the binary? [yes/no] "
ReadyPrompt ==
    <<91, 63, 93, 32, 65, 114, 101, 32, 121, 111, 117, 32, 114, 101, 97, 100,
      121, 32, 116, 111, 32, 114, 101, 99, 101, 105, 118, 101, 32, 116, 104,
      101, 32, 98, 105, 110, 97, 114, 121, 63, 32, 91, 121, 101, 115, 47,
      110, 111, 93, 32>>

\* b"[*] \n    Base64 ELF: "
BinaryPrefix ==
    <<91, 42, 93, 32, 10, 32, 32, 32, 32, 66, 97, 115, 101, 54, 52, 32, 69,
      76, 70, 58, 32>>

\* b"[?] What is the output from running the binary?\n> "
QuestionOnePrompt ==
    <<91, 63, 93, 32, 87, 104, 97, 116, 32, 105, 115, 32, 116, 104, 101, 32,
      111, 117, 116, 112, 117, 116, 32, 102, 114, 111, 109, 32, 114, 117,
      110, 110, 105, 110, 103, 32, 116, 104, 101, 32, 98, 105, 110, 97, 114,
      121, 63, 10, 62, 32>>

\* b"[?] What is the address of win_function in hex?\n> "
QuestionTwoPrompt ==
    <<91, 63, 93, 32, 87, 104, 97, 116, 32, 105, 115, 32, 116, 104, 101, 32,
      97, 100, 100, 114, 101, 115, 115, 32, 111, 102, 32, 119, 105, 110, 95,
      102, 117, 110, 99, 116, 105, 111, 110, 32, 105, 110, 32, 104, 101, 120,
      63, 10, 62, 32>>

\* b"yes\n"
YesLine == <<121, 101, 115, 10>>

\* b'\n'
Newline == 10

\* slice::ends_with
ends_with(bytes, needle) ==
    /\ Len(needle) <= Len(bytes)
    /\ SubSeq(bytes, Len(bytes) - Len(needle) + 1, Len(bytes)) = needle

\* memchr::memmem::find_iter(haystack, needle).next(): <<>> is None, <<i>> is
\* Some(i), the offset of the first occurrence
memmem_find(haystack, needle) ==
    LET starts == {i \in 0..(Len(haystack) - Len(needle)) :
                      SubSeq(haystack, i + 1, i + Len(needle)) = needle}
    IN  IF starts = {} THEN <<>>
        ELSE <<CHOOSE i \in starts : \A j \in starts : i <= j>>

\* memchr::memchr(byte, haystack): <<>> is None, <<i>> is Some(i)
memchr(byte, haystack) ==
    LET hits == {i \in 0..(Len(haystack) - 1) : haystack[i + 1] = byte}
    IN  IF hits = {} THEN <<>>
        ELSE <<CHOOSE i \in hits : \A j \in hits : i <= j>>

\* the standard Base64 alphabet
Base64Alphabet ==
    <<65, 66, 67, 68, 69, 70, 71, 72, 73, 74, 75, 76, 77, 78, 79, 80, 81, 82,
      83, 84, 85, 86, 87, 88, 89, 90, 97, 98, 99, 100, 101, 102, 103, 104,
      105, 106, 107, 108, 109, 110, 111, 112, 113, 114, 115, 116, 117, 118,
      119, 120, 121, 122, 48, 49, 50, 51, 52, 53, 54, 55, 56, 57, 43, 47>>

\* the 6-bit value of a symbol; 64 for a byte outside the alphabet
Sextet(symbol) ==
    IF \E k \in 1..64 : Base64Alphabet[k] = symbol
    THEN (CHOOSE k \in 1..64 : Base64Alphabet[k] = symbol) - 1
    ELSE 64

\* the bytes of one group of four symbols with `pads` trailing '='; <<-1>>
\* when a symbol is outside the alphabet or the unused low bits are not zero
Base64Group(group, pads) ==
    LET a == Sextet(group[1])
        b == Sextet(group[2])
        c == IF pads >= 2 THEN 0 ELSE Sextet(group[3])
        d == IF pads >= 1 THEN 0 ELSE Sextet(group[4])
        bits == ((a * 64 + b) * 64 + c) * 64 + d
        bytes == <<bits \div 65536, (bits \div 256) % 256, bits % 256>>
    IN  IF a = 64 \/ b = 64 \/ c = 64 \/ d = 64 THEN <<-1>>
        ELSE IF pads = 2 THEN (IF b % 16 = 0 THEN SubSeq(bytes, 1, 1) ELSE <<-1>>)
        ELSE IF pads = 1 THEN (IF c % 4 = 0 THEN SubSeq(bytes, 1, 2) ELSE <<-1>>)
        ELSE bytes

RECURSIVE Base64Groups(_)
\* the groups of a text whose length is a multiple of four, in order; '='
\* is accepted only as the last one or two symbols of the last group
Base64Groups(text) ==
    IF text = <<>> THEN <<>>
    ELSE LET group == SubSeq(text, 1, 4)
             rest == SubSeq(text, 5, Len(text))
             \* 61 is b'='
             pads == IF rest # <<>> THEN 0
                     ELSE IF group[3] = 61 /\ group[4] = 61 THEN 2
                     ELSE IF group[4] = 61 THEN 1
                     ELSE 0
         IN  Base64Group(group, pads) \o Base64Groups(rest)

\* BASE64_STANDARD.decode: padding is required and canonical
Base64_decode(text) ==
    IF Len(text) % 4 # 0 THEN Err(<<"Base64">>)
    ELSE LET bytes == Base64Groups(text)
         IN  IF \E i \in DOMAIN bytes : bytes[i] < 0 THEN Err(<<"Base64">>)
             ELSE [kind |-> "Ok", bytes |-> bytes]

\* the sixteen hexadecimal digits of a u64, most significant first
Nibbles(v) ==
    [i \in 1..16 |-> (v[4 - ((i - 1) \div 4)] \div (16 ^ (3 - ((i - 1) % 4)))) % 16]

\* format!("0x{:x}", v): lower case, no leading zeros, "0x0" for zero
format_hex(v) ==
    LET digits == Nibbles(v)
        first == IF \E i \in 1..16 : digits[i] # 0
                 THEN CHOOSE i \in 1..16 :
                         digits[i] # 0 /\ \A j \in 1..(i - 1) : digits[j] = 0
                 ELSE 16
    IN  <<48, 120>> \o
        [k \in 1..(17 - first) |->
            LET d == digits[first + k - 1]
            IN  IF d < 10 THEN 48 + d ELSE 87 + d]

RECURSIVE run_loop(_, _, _, _)
\* the loop of execute_from_x86_decoder from the state `at` on, for at most
\* `turns` iterations: what it returns, or Running when it has not returned
run_loop(at, img, base, turns) ==
    IF at.result # Running \/ turns = 0 THEN at.result
    ELSE CHOOSE r \in
            {run_loop(next, img, base, turns - 1) :
                next \in {loop_iteration(at.cpu, at.decoder, img, base, at.exit_code,
                                         at.stdout, at.stderr)}} : TRUE

\* execute_from_x86_decoder: the results the call can have; Running stands
\* for a call that is still in its loop after MaxSteps iterations
execute_from_x86_decoder(dec, img) ==
    {IF start = Running
     THEN run_loop([cpu |-> Cpu_new, decoder |-> dec, exit_code |-> <<>>,
                    stdout |-> <<>>, stderr |-> <<>>, result |-> Running],
                   img, WrappingSub(dec.ip, FromNat(dec.position)), MaxSteps)
     ELSE start : start \in loop_start(dec)}

\* program::execute_from_binary_slice as main.rs calls it: resolve, then run
execute(object) ==
    LET resolution == execute_from_binary_slice(object).resolution
    IN  IF resolution.kind = "Err" THEN {resolution}
        ELSE execute_from_x86_decoder(resolution.decoder, resolution.image)

\* get_binary_info once the execution has returned `execution`
binary_info(object, execution) ==
    LET exports == get_exports_from_binary_slice(object).resolution
    IN  IF execution.kind # "Ok" THEN execution
        ELSE IF exports.kind = "Err" THEN exports
        ELSE IF "win_function" \notin DOMAIN exports.exports
        THEN Err(<<"unable to get win_function address from binary">>)
        ELSE [kind |-> "Ok",
              info |-> [exit_code |-> execution.execution.exit_code,
                        win_function_address |-> exports.exports["win_function"],
                        program_output |-> execution.execution.stdout]]

\* get_binary_info: the results the call can have
get_binary_info(object) ==
    {binary_info(object, execution) : execution \in execute(object)}

\* four header bytes, then the program
FileImage(prog) == [k \in 1..4 |-> InvalidCell] \o Layout(prog, 1)

\* an ELF64 file loaded at 0x400000 that starts at its fifth byte
ElfFile(prog, syms) ==
    Elf(TRUE, <<Ph("PT_LOAD", LoadBase)>>, EntryPoint, syms, FileImage(prog))

WinFunction == Sym(<<"win_function">>, <<8, 64, 0, 0>>)

\* Object::parse on the buffers a server hands out, told apart by their
\* bytes: ELF files that write "A" to stdout or to stderr and exit, or only
\* exit, with win_function at different addresses; one without the
\* win_function symbol, one that jumps to itself, one that writes to an
\* unsupported descriptor, a file of another format, and bytes that do not
\* parse
Object_parse(bytes) ==
    CASE bytes = <<127, 69, 1>> -> ElfFile(WriteThenExit(1), <<WinFunction>>)
      [] bytes = <<127, 69>> -> ThinElf
      [] bytes = <<127, 69, 2>> -> ElfFile(WriteThenExit(2), <<WinFunction>>)
      [] bytes = <<127, 69, 6>> ->
            ElfFile(ExitThenMore, <<Sym(<<"win_function">>, <<43981, 0, 0, 256>>)>>)
      [] bytes = <<127, 69, 7>> ->
            ElfFile(WriteProgram([imm |-> 65, pop |-> "RBX", rsi |-> STACK_SIZE - 8,
                                  rdx |-> 1]),
                    <<Sym(<<"main">>, EntryPoint), Sym(<<"win_function">>, Max64)>>)
      [] bytes = <<127, 69, 8>> ->
            ElfFile(<<MovRdi(Zero64), MovImm("RAX", 60), SyscallCell>>,
                    <<Sym(<<"win_function">>, <<0, 0, 1, 0>>)>>)
      [] bytes = <<127, 69, 3>> ->
            ElfFile(WriteThenExit(1), <<Sym(<<"main">>, <<8, 64, 0, 0>>)>>)
      [] bytes = <<127, 69, 4>> ->
            ElfFile(<<Cell("Jmp_rel8_64", "NearBranch64", "None", "None", Zero64,
                           0 - 2, 2)>>, <<WinFunction>>)
      [] bytes = <<127, 69, 5>> -> ElfFile(WriteThenExit(3), <<WinFunction>>)
      [] bytes = <<33, 60, 97>> -> Unknown
      [] OTHER -> ParseError

\* the client as one record
Client(st, bytes, flushed, ret) ==
    [state |-> st, recv_buf |-> bytes, sent |-> flushed, outcome |-> ret]

\* an answer after which the client stays in the state it was in
Answer_state_kept(answer, next, bytes, written) ==
    IF written
    THEN Client(state, <<>>, Append(sent, answer), Running)
    ELSE Client(state, bytes, sent, Err(<<"Io">>))

\* write_all, write_u8 and flush of `answer`, then buf.clear() and the next
\* state; a write or flush that fails returns the error
Answer(answer, next, bytes, written) ==
    IF written
    THEN Client(next, <<>>, Append(sent, answer), Running)
    ELSE Client(state, bytes, sent, Err(<<"Io">>))

\* the AwaitingBinary arm on the buffer `bytes`
OnBinary(bytes) ==
    LET start == memmem_find(bytes, BinaryPrefix)
        right == SubSeq(bytes, start[1] + Len(BinaryPrefix) + 1, Len(bytes))
        end == memchr(Newline, right)
        decoded == Base64_decode(SubSeq(right, 1, end[1]))
    IN  IF start = <<>> THEN {Client(state, bytes, sent, Running)}
        ELSE IF end = <<>> THEN {Client(state, bytes, sent, Running)}
        ELSE IF decoded.kind = "Err" THEN {Client(state, bytes, sent, decoded)}
        ELSE {IF got.kind = "Ok"
              THEN Client([kind |-> "AwaitingQuestionOne", info |-> got.info],
                          bytes, sent, Running)
              ELSE IF got.kind = "Running"
              THEN Client(state, bytes, sent, [kind |-> "Executing"])
              ELSE IF got.kind = "Panic"
              THEN Client(state, bytes, sent, got)
              ELSE Client(state, bytes, sent,
                          Err(<<"unable to parse/execute binary", got.err>>)) :
                got \in get_binary_info(Object_parse(decoded.bytes))}

\* the match on state after try_read_buf returned Ok(n), n > 0, and left
\* `bytes` in buf; `writes` holds whether a write can succeed and can fail
OnRead(bytes, writes) ==
    CASE state.kind = "AwaitingBinaryReadPrompt" ->
            IF ends_with(bytes, ReadyPrompt)
            THEN {Answer(YesLine, [kind |-> "AwaitingBinary"], bytes, written) :
                    written \in writes}
            ELSE {Client(state, bytes, sent, Running)}
      [] state.kind = "AwaitingBinary" -> OnBinary(bytes)
      [] state.kind = "AwaitingQuestionOne" ->
            IF ends_with(bytes, QuestionOnePrompt)
            THEN {Answer(Append(state.info.program_output, Newline),
                         [kind |-> "AwaitingQuestionTwo", info |-> state.info],
                         bytes, written) : written \in writes}
            ELSE {Client(state, bytes, sent, Running)}
      [] state.kind = "AwaitingQuestionTwo" ->
            IF ends_with(bytes, QuestionTwoPrompt)
            THEN {Answer(Append(format_hex(state.info.win_function_address), Newline),
                         [kind |-> "Complete"], bytes, written) : written \in writes}
            ELSE {Client(state, bytes, sent, Running)}
      [] OTHER -> {Client(state, bytes, sent, Running)}

-----------------------------------------------------------------------------
(* The challenge client against a server                                    *)

\* messages a server adds to the exchange of the challenge
MaxExtra == 1

\* pieces a message travels in: a read returns one or more whole pieces
MaxPieces == 3

\* where a message of `len` bytes is cut: before its last byte and after
\* each of its first MaxPieces - 2 bytes
Cuts(len) == {c \in (1..(MaxPieces - 2)) \cup {len - 1} : c > 0 /\ c < len}

RECURSIVE PiecesFrom(_, _, _)
\* the pieces of `message` from offset `from` on, cut at `cuts`
PiecesFrom(message, from, cuts) ==
    LET later == {c \in cuts : c > from}
        cut == IF later = {} THEN Len(message)
               ELSE CHOOSE c \in later : \A d \in later : c <= d
    IN  IF from >= Len(message) THEN <<>>
        ELSE <<SubSeq(message, from + 1, cut)>> \o PiecesFrom(message, cut, cuts)

Pieces(message) == PiecesFrom(message, 0, Cuts(Len(message)))

RECURSIVE Joined(_)
\* the bytes of the pieces, in order
Joined(pieces) ==
    IF pieces = <<>> THEN <<>> ELSE Head(pieces) \o Joined(Tail(pieces))

\* "f0UB", "f0U=", "f0UC", "f0UG", "f0UH" and "f0UI": the files that run,
\* exit and export win_function
WinTexts ==
    {<<102, 48, 85, 66>>, <<102, 48, 85, 61>>, <<102, 48, 85, 67>>,
     <<102, 48, 85, 71>>, <<102, 48, 85, 72>>, <<102, 48, 85, 73>>}

\* the Base64 texts served: those six, "f0UD" (no win_function), "f0UE"
\* (jumps to itself), "f0UF" (unsupported descriptor), "ITxh" (another
\* format), "AA==" (does not parse), and "f0U" and "f0U!" (not Base64)
Texts ==
    WinTexts \cup
    {<<102, 48, 85, 68>>, <<102, 48, 85, 69>>, <<102, 48, 85, 70>>,
     <<73, 84, 120, 104>>, <<65, 65, 61, 61>>, <<102, 48, 85>>, <<102, 48, 85, 33>>}

\* the line that carries the binary
Line(text) == BinaryPrefix \o text \o <<Newline>>

\* what the server of the challenge writes, in order
Protocol(text) ==
    <<ReadyPrompt, Line(text), QuestionOnePrompt, QuestionTwoPrompt>>

Menu == {ReadyPrompt, Line(<<102, 48, 85, 66>>), QuestionOnePrompt, QuestionTwoPrompt}

\* the scripts with one more message from the menu somewhere
Extended(scripts) ==
    {SubSeq(script, 1, at) \o <<m>> \o SubSeq(script, at + 1, Len(script)) :
        script \in scripts, at \in 0..4, m \in Menu}

RECURSIVE Deviations(_)
\* the exchange of the challenge with up to `extra` added messages
Deviations(extra) ==
    IF extra = 0 THEN {Protocol(<<102, 48, 85, 66>>)}
    ELSE LET fewer == Deviations(extra - 1)
         IN  fewer \cup {script \in Extended(fewer) : Len(script) <= 4 + extra}

\* what a server may write: the exchange with each text, the exchange with
\* added messages, and the exchange without its first or its third message
Scripts ==
    {Protocol(text) : text \in Texts}
    \cup Deviations(MaxExtra)
    \cup {Tail(Protocol(<<102, 48, 85, 66>>)),
          <<ReadyPrompt, Line(<<102, 48, 85, 66>>), QuestionTwoPrompt>>}

\* complete_challenge after TcpStream::connect, against a server that has
\* written nothing yet
ClientStart(scripts) ==
    /\ state = [kind |-> "AwaitingBinaryReadPrompt"]
    /\ recv_buf = <<>>
    /\ wire = <<>>
    /\ sent = <<>>
    /\ outcome = Running
    /\ \E script \in scripts :
          server = [script |-> script, written |-> 0, end |-> "open"]

InitClient ==
    /\ ClientStart(Scripts)
    /\ CpuInit
    /\ LoopIdle
    /\ LoaderIdle

\* one pass through the loop in which try_read_buf returns Ok(n), n > 0:
\* the bytes of the first pieces on the wire are appended to buf and the arm
\* of the state runs (buf has room for 8192 bytes, more than a server writes
\* here)
ReadBytes ==
    /\ outcome = Running
    /\ \E n \in 1..Len(wire) :
          /\ wire' = SubSeq(wire, n + 1, Len(wire))
          /\ \E next \in OnRead(recv_buf \o Joined(SubSeq(wire, 1, n)),
                                IF server.end = "open" THEN {TRUE} ELSE {TRUE, FALSE}) :
                /\ state' = next.state
                /\ recv_buf' = next.recv_buf
                /\ sent' = next.sent
                /\ outcome' = next.outcome
    /\ UNCHANGED <<server, cpuVars, loopVars, loaderVars>>

\* try_read_buf returns Ok(0) at the end of the stream: break, then
\* String::from_utf8(buf)?
ReadEnd ==
    /\ outcome = Running
    /\ wire = <<>>
    /\ server.end = "closed"
    /\ outcome' = IF IsUtf8(recv_buf) THEN [kind |-> "Ok"]
                  ELSE Err(<<"FromUtf8Error">>)
    /\ UNCHANGED <<state, recv_buf, wire, sent, server, cpuVars, loopVars, loaderVars>>

\* try_read_buf returns an error other than WouldBlock
ReadFails ==
    /\ outcome = Running
    /\ server.end = "reset"
    /\ outcome' = Err(<<"Io">>)
    /\ UNCHANGED <<state, recv_buf, wire, sent, server, cpuVars, loopVars, loaderVars>>

\* the server writes its next message, whatever the client has done
ServerWrites ==
    /\ server.end = "open"
    /\ server.written < Len(server.script)
    /\ wire' = wire \o Pieces(server.script[server.written + 1])
    /\ server' = [server EXCEPT !.written = @ + 1]
    /\ UNCHANGED <<state, recv_buf, sent, outcome, cpuVars, loopVars, loaderVars>>

\* the server closes the connection, or the connection breaks
ServerEnds ==
    /\ server.end = "open"
    /\ \E end \in {"closed", "reset"} : server' = [server EXCEPT !.end = end]
    /\ UNCHANGED <<state, recv_buf, wire, sent, outcome, cpuVars, loopVars, loaderVars>>

ClientNext == ReadBytes \/ ReadEnd \/ ReadFails \/ ServerWrites \/ ServerEnds

SpecClient == InitClient /\ [][ClientNext]_vars

\* the position of a State in the order of the enum
Rank(st) ==
    CASE st.kind = "AwaitingBinaryReadPrompt" -> 1
      [] st.kind = "AwaitingBinary" -> 2
      [] st.kind = "AwaitingQuestionOne" -> 3
      [] st.kind = "AwaitingQuestionTwo" -> 4
      [] st.kind = "Complete" -> 5

\* the BinaryInfo values that executing a binary line the server has written
\* and looking up its win_function can give
ServedInfos ==
    {got.info :
        got \in {g \in UNION {get_binary_info(Object_parse(Base64_decode(text).bytes)) :
                                text \in {t \in Texts :
                                            /\ Base64_decode(t).kind = "Ok"
                                            /\ \E i \in 1..server.written :
                                                  server.script[i] = Line(t)}} :
                    g.kind = "Ok"}}

\* C31: the client state moves only forward, one state at a time, along
\* AwaitingBinaryReadPrompt, AwaitingBinary, AwaitingQuestionOne,
\* AwaitingQuestionTwo, Complete; it sends "yes\n" on leaving the first state,
\* the program's stdout and a newline on leaving AwaitingQuestionOne, and the
\* hex address of win_function and a newline on leaving AwaitingQuestionTwo,
\* and nothing else, so each is sent at most once and in that order; the
\* BinaryInfo it answers from comes from a binary the server wrote, which ran
\* and exports win_function; and when running the binary or finding the
\* export fails, the attempt ends with only "yes\n" sent.
C31_ClientOrdering ==
    /\ [][/\ Rank(state') \in {Rank(state), Rank(state) + 1}
          /\ \/ /\ Rank(state) = 2 /\ Rank(state') = 3
                /\ sent' = sent
             \/ /\ Rank(state) = 1 /\ Rank(state') = 2
                /\ sent = <<>>
                /\ sent' = <<YesLine>>
             \/ /\ Rank(state) = 3 /\ Rank(state') = 4
                /\ state'.info = state.info
                /\ Len(sent) = 1
                /\ sent' = Append(sent, Append(state.info.program_output, Newline))
             \/ /\ Rank(state) = 4 /\ Rank(state') = 5
                /\ Len(sent) = 2
                /\ sent' = Append(sent,
                                  Append(format_hex(state.info.win_function_address),
                                         Newline))]_<<state, sent>>
    /\ [](Rank(state) \in {3, 4} => state.info \in ServedInfos)
    /\ []((outcome.kind = "Err" /\ outcome.err[1] = "unable to parse/execute binary")
            => sent = <<YesLine>>)

\* the challenge is complete: "yes\n", "A\n" and "0x400008\n" were sent
C31_Witness ==
    /\ state.kind = "Complete"
    /\ outcome = Running
    /\ sent = <<YesLine, <<65, 10>>, <<48, 120, 52, 48, 48, 48, 48, 56, 10>>>>

-----------------------------------------------------------------------------
(* The server of the challenge: it writes the ready prompt, after "yes" the *)
(* binary line and the first question, after the first answer the second    *)
(* question, and otherwise waits for the client                             *)

\* how many of its messages the server writes before it waits for the next
\* answer
Released ==
    CASE Len(sent) = 0 -> 1
      [] Len(sent) = 1 -> 3
      [] OTHER -> 4

InitChallenge ==
    /\ ClientStart({Protocol(text) : text \in WinTexts})
    /\ CpuInit
    /\ LoopIdle
    /\ LoaderIdle

\* the server writes its next message once the answer before it has arrived
ServerFollows ==
    /\ server.written < Released
    /\ ServerWrites

\* what every read that returns bytes does to the wire
Take ==
    /\ outcome = Running
    /\ \E n \in 1..Len(wire) : wire' = SubSeq(wire, n + 1, Len(wire))

\* every read that returns bytes is such a step
EveryReadTakes == [][ReadBytes => Take]_vars

ChallengeNext == ReadBytes \/ ServerFollows

\* the client loop runs on, so bytes that have arrived are read; the server
\* writes what it has to write
FairClient ==
    /\ InitChallenge
    /\ [][ChallengeNext]_vars
    /\ WF_wire(Take)
    /\ WF_vars(ServerFollows)

\* nothing is left to read and the server waits for the next answer
ServerWaits ==
    /\ wire = <<>>
    /\ server.written = Released
    /\ outcome = Running

\* C32: against the server of the challenge the client eventually has sent
\* both answers and is in Complete, however the stream is cut into reads;
\* so it is never in another state with nothing left to read while the
\* server waits for it.
C32_ClientProgress ==
    /\ <>(state.kind = "Complete" /\ Len(sent) = 3)
    /\ [](ServerWaits => state.kind = "Complete")

=============================================================================
